---- MODULE Spec2Model ----
(***************************************************************************)
(* A model of the RAG memory manager of PsyDoctor-Client                   *)
(* (src/backend/memory_manager.py) and of the chat handler that uses it    *)
(* (src/backend/main.py).                                                  *)
(*                                                                         *)
(* Python values are modelled as follows.                                  *)
(*   - a text is a sequence of one-character strings;                      *)
(*   - a message dict is a record whose optional keys hold a marker        *)
(*     (NoId, NoTime, NoCid, NoSrc) when the key is absent;                *)
(*   - a dict keyed by conversation id or content hash is a function       *)
(*     whose DOMAIN is the key set;                                        *)
(*   - a list is a sequence; Python index i is TLA+ index i + 1;           *)
(*   - a FAISS IndexFlatIP is the sequence of its rows;                    *)
(*   - an embedding is a pair of integers of Euclidean norm 10, so the     *)
(*     inner product of two embeddings is the cosine similarity in         *)
(*     hundredths;                                                         *)
(*   - a time is a whole number of hours.                                  *)
(***************************************************************************)
EXTENDS Integers, Sequences, FiniteSets, TLC

VARIABLES
    memory,              \* self.memory: conversation id -> {messages, metadata}
    faiss_indices,       \* self.faiss_indices: conversation id -> rows
    message_index_maps,  \* self.message_index_maps: conversation id -> messages
    map_alias,           \* which stored message each entry of a message map is
    vector_cache,        \* self.vector_cache: content hash -> vector
    disk,                \* the three persisted files
    max_recent_messages, \* self.max_recent_messages (constructor argument)
    now,                 \* datetime.now(), in hours
    faiss_available,     \* FAISS_AVAILABLE: whether `import faiss` succeeded
    faults,              \* what may fail: a subset of {"embedder", "io"}
    returned,            \* text -> the first vector _get_vector returned for it
    queue,               \* the searches the event loop has accepted and not started
    lastOp,              \* the store operation that is about to return
    chat,                \* the chat request that is about to return
    sel                  \* the selector's last call: arguments and result

vars == <<memory, faiss_indices, message_index_maps, map_alias, vector_cache, disk,
          max_recent_messages, now, faiss_available, faults, returned,
                   queue, lastOp, chat, sel>>

-----------------------------------------------------------------------------
(* Bounds of the model. *)

MaxLen == 4       \* longest message list handed to the selector
MaxWindow == 4    \* largest max_recent_messages
MaxBatch == 2     \* longest message list handed to append or sync
MaxStored == 2    \* most messages held by the store, all conversations together
MaxSync == 2      \* longest message list the front end synchronises
MaxExclude == 2   \* largest exclude_recent_count handed to retrieval
MaxForeign == 1   \* longest message list of the other conversation in retrieval
MaxLog == 5       \* longest conversation log of alternating turns

-----------------------------------------------------------------------------
(* Python helpers. *)

Min(a, b) == IF a <= b THEN a ELSE b
Max(a, b) == IF a >= b THEN a ELSE b
SetMax(S) == CHOOSE x \in S : \A y \in S : y <= x

EmptyDict == [k \in {} |-> k]

\* d[k] = v on a dict
DictSet(d, k, v) == [x \in DOMAIN d \cup {k} |-> IF x = k THEN v ELSE d[x]]

\* del d[k]
DictDel(d, k) == [x \in DOMAIN d \ {k} |-> d[x]]

\* s[i:] for i >= 0
PyFrom(s, i) == SubSeq(s, i + 1, Len(s))

\* s[:n] for n >= 0
PyHead(s, n) == SubSeq(s, 1, Min(n, Len(s)))

\* s[-n:] for n >= 0; -0 is 0, so s[-0:] is the whole list
PyTail(s, n) == IF n = 0 THEN s ELSE SubSeq(s, Max(Len(s) - n, 0) + 1, Len(s))

\* s[:-n] for n >= 0; -0 is 0, so s[:-0] is the empty list
PyDropTail(s, n) == IF n = 0 THEN <<>> ELSE SubSeq(s, 1, Len(s) - n)

\* the sequences over S of length at most n
SeqsUpTo(S, n) == UNION {[1..k -> S] : k \in 0..n}

-----------------------------------------------------------------------------
(* Messages. *)

NoId == "<no id>"
NoTime == 0 - 1
NoCid == "<no conversation_id>"
NoSrc == "<no _source_conversation>"

ConvOrder == <<"c1", "c2">>
ConvIds == {ConvOrder[i] : i \in DOMAIN ConvOrder}

\* the first of a non-empty set of conversation ids
FirstConv(ids) ==
    LET rank(c) == CHOOSE i \in DOMAIN ConvOrder : ConvOrder[i] = c
    IN  CHOOSE c \in ids : \A d \in ids : rank(c) <= rank(d)

Msg(role, content, id, timestamp, conversation_id) ==
    [role |-> role, content |-> content, id |-> id, timestamp |-> timestamp,
     conversation_id |-> conversation_id, src |-> NoSrc]

IsSystem(msg) == msg.role = "system"
NotSystem(msg) == msg.role # "system"

\* [msg for msg in messages if msg.get('role') != 'system']
NonSystem(messages) == SelectSeq(messages, NotSystem)

\* str.strip() on a text: leading and trailing blanks removed
RECURSIVE LStrip(_)
LStrip(c) == IF c # <<>> /\ Head(c) = " " THEN LStrip(Tail(c)) ELSE c
RECURSIVE RStrip(_)
RStrip(c) ==
    IF c # <<>> /\ c[Len(c)] = " " THEN RStrip(SubSeq(c, 1, Len(c) - 1)) ELSE c
Strip(c) == RStrip(LStrip(c))

MIN_CONTENT_LEN == 3

\* `not content or len(content.strip()) < 3`
TooShort(content) == content = <<>> \/ Len(Strip(content)) < MIN_CONTENT_LEN

Sad == <<"s", "a", "d">>
Glad == <<"g", "l", "a", "d">>
Hi == <<"h", "i">>
PaddedOk == <<" ", "o", "k", " ">>

-----------------------------------------------------------------------------
(* The sliding-window selector. *)

\* the selector with `<` for the `<=` of line 328
get_sliding_window_strict(messages, max_messages) ==
    IF messages = <<>> THEN <<>>
    ELSE
    LET target_count == max_messages - 1 IN
    IF Len(messages) < target_count THEN messages
    ELSE
    LET window == PyTail(messages, target_count) IN
    IF window # <<>> /\ window[1].role # "user"
    THEN
        LET window_start_idx == Len(messages) - target_count
            users == {i \in 0..(window_start_idx - 1) : messages[i + 1].role = "user"}
        IN  IF users = {} THEN <<>>
            ELSE
            LET from_user == PyFrom(messages, SetMax(users)) IN
            IF Len(from_user) > target_count
            THEN PyHead(from_user, target_count)
            ELSE from_user
    ELSE window

get_sliding_window(messages, max_messages) ==
    IF messages = <<>> THEN <<>>
    ELSE
    LET target_count == max_messages - 1 IN
    IF Len(messages) <= target_count THEN messages
    ELSE
    LET window == PyTail(messages, target_count) IN
    IF window # <<>> /\ window[1].role # "user"
    THEN
        LET window_start_idx == Len(messages) - target_count
            users == {i \in 0..(window_start_idx - 1) : messages[i + 1].role = "user"}
        IN  IF users = {} THEN <<>>
            ELSE
            LET from_user == PyFrom(messages, SetMax(users)) IN
            IF Len(from_user) > target_count
            THEN PyHead(from_user, target_count)
            ELSE from_user
    ELSE window

-----------------------------------------------------------------------------
(* The embedding cache.  The operations below are functions on a record st *)
(* of the manager's fields (memory, faiss_indices, message_index_maps,     *)
(* vector_cache, disk); env tells what the environment does during one     *)
(* handler: whether the Embedder answers and whether file writes succeed.  *)
(*                                                                         *)
(* A message map holds the very dicts of the conversation's message list,  *)
(* not copies.  map_alias[c][i] is the position (from 1) in                *)
(* memory[c].messages of the dict that message_index_maps[c][i] is, or 0   *)
(* when that dict is no longer in the store.                               *)

St == [memory |-> memory, faiss_indices |-> faiss_indices,
       message_index_maps |-> message_index_maps, map_alias |-> map_alias,
       vector_cache |-> vector_cache, disk |-> disk]

SetSt(st) ==
    /\ memory' = st.memory
    /\ faiss_indices' = st.faiss_indices
    /\ message_index_maps' = st.message_index_maps
    /\ map_alias' = st.map_alias
    /\ vector_cache' = st.vector_cache
    /\ disk' = st.disk

Envs == [embedder_up : IF "embedder" \in faults THEN BOOLEAN ELSE {TRUE},
         io_ok : IF "io" \in faults THEN BOOLEAN ELSE {TRUE}]

NoVector == <<>>

\* a digest that is the same for every text
get_content_hash_constant(content) == <<"md5">>

\* hashlib.md5(content.encode('utf-8')).hexdigest(): a key that depends on
\* the whole text (blanks included) and on nothing else
get_content_hash(content) == <<"md5">> \o content

\* self.embedder.encode(content, normalize_embeddings=True)
Embed(content) ==
    CASE content = Sad -> <<10, 0>>
      [] content = Glad -> <<6, 8>>
      [] OTHER -> <<0, 10>>

CACHE_SAVE_EVERY == 100

save_cache(st, env) ==
    IF env.io_ok
    THEN [st EXCEPT !.disk = [@ EXCEPT !.cache = st.vector_cache]]
    ELSE st

\* get_vector without lines 123-125: the cache is never read
get_vector_uncached(st, content, env) ==
    IF TooShort(content) THEN [vector |-> NoVector, st |-> st]
    ELSE
    IF env.embedder_up
    THEN [vector |-> Embed(content),
          st |-> [st EXCEPT !.vector_cache =
                    DictSet(@, get_content_hash(content), Embed(content))]]
    ELSE [vector |-> NoVector, st |-> st]

\* returns the vector (or NoVector for None) and the manager after the call
get_vector(st, content, env) ==
    IF TooShort(content) THEN [vector |-> NoVector, st |-> st]
    ELSE
    LET content_hash == get_content_hash(content) IN
    IF content_hash \in DOMAIN st.vector_cache
    THEN [vector |-> st.vector_cache[content_hash], st |-> st]
    ELSE
    IF env.embedder_up
    THEN
        LET vector == Embed(content)
            st1 == [st EXCEPT !.vector_cache = DictSet(@, content_hash, vector)]
        IN  [vector |-> vector,
             st |-> IF Cardinality(DOMAIN st1.vector_cache) % CACHE_SAVE_EVERY = 0
                    THEN save_cache(st1, env)
                    ELSE st1]
    ELSE [vector |-> NoVector, st |-> st]

-----------------------------------------------------------------------------
(* Persistence. *)

save_vectors(st, env) ==
    IF ~faiss_available THEN st
    ELSE
    IF env.io_ok
    THEN [st EXCEPT !.disk = [@ EXCEPT !.vectors =
            [faiss_indices |->
                [c \in {x \in DOMAIN st.faiss_indices : Len(st.faiss_indices[x]) > 0}
                    |-> st.faiss_indices[c]],
             message_index_maps |-> st.message_index_maps]]]
    ELSE st

\* _save_memory that writes nothing
save_memory_skipped(st, env) == st

\* a failed write of the conversation log skips the two other files
save_memory(st, env) ==
    IF env.io_ok
    THEN save_cache(save_vectors([st EXCEPT !.disk = [@ EXCEPT !.memory = st.memory]],
                                 env), env)
    ELSE st

-----------------------------------------------------------------------------
(* The per-conversation index. *)

\* the positions (from 1) of the non-system messages of a list
NonSystemPositions(messages) ==
    LET RECURSIVE from(_)
        from(i) == IF i > Len(messages) THEN <<>>
                   ELSE (IF NotSystem(messages[i]) THEN <<i>> ELSE <<>>) \o from(i + 1)
    IN  from(1)

\* the loop of _build_faiss_index over the non-system messages, given by
\* their positions in the conversation's message list
RECURSIVE build_loop(_, _, _, _, _)
build_loop(st, messages, positions, built, env) ==
    IF positions = <<>>
    THEN [st |-> st, vectors |-> built.vectors, message_map |-> built.message_map,
          alias |-> built.alias]
    ELSE
    LET msg == messages[Head(positions)] IN
    IF TooShort(msg.content)
    THEN build_loop(st, messages, Tail(positions), built, env)
    ELSE
    LET got == get_vector(st, msg.content, env) IN
    IF got.vector # NoVector
    THEN build_loop(got.st, messages, Tail(positions),
                    [vectors |-> Append(built.vectors, got.vector),
                     message_map |-> Append(built.message_map, msg),
                     alias |-> Append(built.alias, Head(positions))], env)
    ELSE build_loop(got.st, messages, Tail(positions), built, env)

\* _build_faiss_index without line 265: the message map is not assigned
build_faiss_index_without_map(st, conversation_id, env) ==
    IF ~faiss_available THEN st
    ELSE
    IF conversation_id \notin DOMAIN st.memory THEN st
    ELSE
    LET messages == st.memory[conversation_id].messages
        conversation_messages == NonSystem(messages)
    IN
    IF conversation_messages = <<>> THEN st
    ELSE
    LET built == build_loop(st, messages, NonSystemPositions(messages),
                            [vectors |-> <<>>, message_map |-> <<>>, alias |-> <<>>],
                            env)
    IN
    IF built.vectors = <<>> THEN built.st
    ELSE [built.st EXCEPT
            !.faiss_indices = DictSet(@, conversation_id, built.vectors)]

build_faiss_index(st, conversation_id, env) ==
    IF ~faiss_available THEN st
    ELSE
    IF conversation_id \notin DOMAIN st.memory THEN st
    ELSE
    LET messages == st.memory[conversation_id].messages
        conversation_messages == NonSystem(messages)
    IN
    IF conversation_messages = <<>> THEN st
    ELSE
    LET built == build_loop(st, messages, NonSystemPositions(messages),
                            [vectors |-> <<>>, message_map |-> <<>>, alias |-> <<>>],
                            env)
    IN
    IF built.vectors = <<>> THEN built.st
    ELSE [built.st EXCEPT
            !.faiss_indices = DictSet(@, conversation_id, built.vectors),
            !.message_index_maps = DictSet(@, conversation_id, built.message_map),
            !.map_alias = DictSet(@, conversation_id, built.alias)]

NoBuild == [message_map |-> <<>>, alias |-> <<>>, built |-> FALSE]

\* _build_faiss_index up to and including line 264: the new index is in
\* self.faiss_indices, the new message map is not yet in self.message_index_maps
build_index_assigned(st, conversation_id, env) ==
    IF ~faiss_available THEN [st |-> st, pending |-> NoBuild]
    ELSE
    IF conversation_id \notin DOMAIN st.memory THEN [st |-> st, pending |-> NoBuild]
    ELSE
    LET messages == st.memory[conversation_id].messages
        conversation_messages == NonSystem(messages)
    IN
    IF conversation_messages = <<>> THEN [st |-> st, pending |-> NoBuild]
    ELSE
    LET built == build_loop(st, messages, NonSystemPositions(messages),
                            [vectors |-> <<>>, message_map |-> <<>>, alias |-> <<>>],
                            env)
    IN
    IF built.vectors = <<>> THEN [st |-> built.st, pending |-> NoBuild]
    ELSE [st |-> [built.st EXCEPT
                    !.faiss_indices = DictSet(@, conversation_id, built.vectors)],
          pending |-> [message_map |-> built.message_map, alias |-> built.alias,
                       built |-> TRUE]]

\* line 265
build_map_assigned(st, conversation_id, pending) ==
    IF pending.built
    THEN [st EXCEPT
            !.message_index_maps = DictSet(@, conversation_id, pending.message_map),
            !.map_alias = DictSet(@, conversation_id, pending.alias)]
    ELSE st

-----------------------------------------------------------------------------
(* The conversation store. *)

NoTitle == "<no title>"

\* f"{conversation_id}_{len(self.memory[conversation_id]['messages'])}"
assigned_id(conversation_id, length) == conversation_id \o "_" \o ToString(length)

\* {msg.get('id') for msg in messages if 'id' in msg}
IdsOf(messages) == {messages[i].id : i \in {j \in DOMAIN messages : messages[j].id # NoId}}

\* add_loop without the test of lines 376-378: every message of the batch is stored
RECURSIVE add_loop_no_skip(_, _, _, _)
add_loop_no_skip(stored, existing_ids, conversation_id, messages) ==
    IF messages = <<>> THEN stored
    ELSE
    LET msg == Head(messages)
        kept == IF msg.id = NoId
                THEN [msg EXCEPT !.id = assigned_id(conversation_id, Len(stored))]
                ELSE msg
    IN  add_loop_no_skip(Append(stored, kept), existing_ids, conversation_id,
                         Tail(messages))

\* the loop of add_messages: existing_ids is computed once, before the loop
RECURSIVE add_loop(_, _, _, _)
add_loop(stored, existing_ids, conversation_id, messages) ==
    IF messages = <<>> THEN stored
    ELSE
    LET msg == Head(messages) IN
    IF msg.id # NoId /\ msg.id \in existing_ids
    THEN add_loop(stored, existing_ids, conversation_id, Tail(messages))
    ELSE
    LET kept == IF msg.id = NoId
                THEN [msg EXCEPT !.id = assigned_id(conversation_id, Len(stored))]
                ELSE msg
    IN  add_loop(Append(stored, kept), existing_ids, conversation_id, Tail(messages))

add_messages(st, conversation_id, messages, env) ==
    LET st1 == IF conversation_id \notin DOMAIN st.memory
               THEN [st EXCEPT !.memory = DictSet(@, conversation_id,
                        [messages |-> <<>>,
                         metadata |-> [created_at |-> now, updated_at |-> now,
                                       message_count |-> 0 - 1, title |-> NoTitle]])]
               ELSE st
        old == st1.memory[conversation_id]
        stored == add_loop(old.messages, IdsOf(old.messages), conversation_id, messages)
        st2 == [st1 EXCEPT !.memory = DictSet(@, conversation_id,
                    [messages |-> stored,
                     metadata |-> [old.metadata EXCEPT !.updated_at = now,
                                                       !.message_count = Len(stored)]])]
    IN  save_memory(build_faiss_index(st2, conversation_id, env), env)

\* the canonical shape sync_conversation gives an incoming message
backend_msg(msg, conversation_id) ==
    [role |-> msg.role, content |-> msg.content,
     timestamp |-> IF msg.timestamp # NoTime THEN msg.timestamp ELSE now,
     conversation_id |-> conversation_id, id |-> msg.id, src |-> NoSrc]

\* lines 940-970: the conversation's record replaced, nothing rebuilt or saved
sync_store(st, conversation_id, messages, metadata) ==
    LET backend_messages == [i \in DOMAIN messages |->
                                backend_msg(messages[i], conversation_id)]
        \* the dicts of the replaced list are no longer in the store
        orphaned == IF conversation_id \in DOMAIN st.map_alias
                    THEN DictSet(st.map_alias, conversation_id,
                                 [i \in DOMAIN st.map_alias[conversation_id] |-> 0])
                    ELSE st.map_alias
    IN  [st EXCEPT !.map_alias = orphaned,
                   !.memory = DictSet(@, conversation_id,
                    [messages |-> backend_messages,
                     metadata |-> [created_at |-> IF metadata.present THEN NoTime ELSE now,
                                   updated_at |-> now,
                                   message_count |-> Len(backend_messages),
                                   title |-> metadata.title]])]

sync_conversation(st, conversation_id, messages, metadata, env) ==
    save_memory(build_faiss_index(sync_store(st, conversation_id, messages, metadata),
                                  conversation_id, env), env)

\* delete_conversation returning True on every path
delete_always_found(st, conversation_id) == TRUE

\* the value delete_conversation returns: True iff the id was stored
delete_found(st, conversation_id) == conversation_id \in DOMAIN st.memory

\* delete_conversation that also empties the embedding cache
delete_drops_cache(st, conversation_id, env) ==
    IF conversation_id \in DOMAIN st.memory
    THEN save_memory([st EXCEPT !.memory = DictDel(@, conversation_id),
                                !.faiss_indices = DictDel(@, conversation_id),
                                !.message_index_maps = DictDel(@, conversation_id),
                                !.map_alias = DictDel(@, conversation_id),
                                !.vector_cache = EmptyDict],
                     env)
    ELSE st

\* delete_conversation without lines 982-983: the message map is left behind
delete_keeps_map(st, conversation_id, env) ==
    IF conversation_id \in DOMAIN st.memory
    THEN save_memory([st EXCEPT !.memory = DictDel(@, conversation_id),
                                !.faiss_indices = DictDel(@, conversation_id)],
                     env)
    ELSE st

\* returns the manager after the call; the call returns True iff the id was stored
delete_conversation(st, conversation_id, env) ==
    IF conversation_id \in DOMAIN st.memory
    THEN save_memory([st EXCEPT !.memory = DictDel(@, conversation_id),
                                !.faiss_indices = DictDel(@, conversation_id),
                                !.message_index_maps = DictDel(@, conversation_id),
                                !.map_alias = DictDel(@, conversation_id)],
                     env)
    ELSE st

-----------------------------------------------------------------------------
(* The relevance ranker.  Similarities are in hundredths, time decays and  *)
(* the cross-conversation factor in tenths, so a score is in units of      *)
(* 1/10000.  The dicts keyed by conversation id are iterated in the order   *)
(* of ConvOrder.                                                           *)

retrieval_top_k == 10
similarity_threshold == 30
CROSS_FACTOR == 9
SAME_FACTOR == 10
\* tenths of tenths in a score, for a threshold in hundredths
SCORE_UNIT == 10 * 10

BadTime == 0 - 2

\* _calculate_time_decay, in tenths; BadTime is a timestamp fromisoformat rejects
calculate_time_decay(timestamp, current_time) ==
    IF timestamp = BadTime THEN 5
    ELSE
    LET hours_diff == current_time - timestamp IN
    IF hours_diff <= 24 THEN 10
    ELSE IF hours_diff <= 168 THEN 8
    ELSE IF hours_diff <= 720 THEN 5
    ELSE 3

\* msg.get('timestamp', msg.get('created_at', datetime.now().isoformat()));
\* no message of the model has a created_at key
TimestampOf(msg) == IF msg.timestamp = NoTime THEN now ELSE msg.timestamp

\* the inner product of two embeddings
Dot(u, v) == u[1] * v[1] + u[2] * v[2]

\* a descending sort that puts an element before its equals
RECURSIVE InsertByScore_ties_reversed(_, _)
InsertByScore_ties_reversed(sorted, x) ==
    IF sorted = <<>> THEN <<x>>
    ELSE IF Head(sorted).score > x.score
         THEN <<Head(sorted)>> \o InsertByScore_ties_reversed(Tail(sorted), x)
         ELSE <<x>> \o sorted

\* list.sort(key=lambda x: x['score'], reverse=True): stable, descending
RECURSIVE InsertByScore(_, _)
InsertByScore(sorted, x) ==
    IF sorted = <<>> THEN <<x>>
    ELSE IF Head(sorted).score >= x.score
         THEN <<Head(sorted)>> \o InsertByScore(Tail(sorted), x)
         ELSE <<x>> \o sorted

RECURSIVE SortByScore(_, _)
SortByScore(sorted, rest) ==
    IF rest = <<>> THEN sorted
    ELSE SortByScore(InsertByScore(sorted, Head(rest)), Tail(rest))

\* index.search(query_vector, k): the k rows of largest inner product, largest
\* first, as (similarity, row) pairs with rows counted from 0
faiss_search(rows, query_vector, k) ==
    PyHead(SortByScore(<<>>, [i \in DOMAIN rows |->
                [score |-> Dot(query_vector, rows[i]), idx |-> i - 1]]), k)

\* msg['_source_conversation'] = conv_id on the dict at row idx of a message map
tag_source(st, conv_id, idx) ==
    LET pos == st.map_alias[conv_id][idx + 1]
        st1 == [st EXCEPT !.message_index_maps[conv_id][idx + 1].src = conv_id]
    IN  IF pos > 0
        THEN [st1 EXCEPT !.memory[conv_id].messages[pos].src = conv_id]
        ELSE st1

Scored(msg, similarity, factor) ==
    LET time_decay == calculate_time_decay(TimestampOf(msg), now) IN
    [message |-> msg, score |-> similarity * time_decay * factor,
     similarity |-> similarity, time_decay |-> time_decay]

Passes(scored) == scored.score >= similarity_threshold * SCORE_UNIT

\* foreign_hits without the cross-conversation discount of line 626
RECURSIVE foreign_hits_undiscounted(_, _, _, _)
foreign_hits_undiscounted(st, conv_id, hits, results) ==
    IF hits = <<>> THEN [st |-> st, results |-> results]
    ELSE
    LET hit == Head(hits) IN
    IF hit.idx >= Len(st.message_index_maps[conv_id])
    THEN foreign_hits_undiscounted(st, conv_id, Tail(hits), results)
    ELSE
    LET st1 == tag_source(st, conv_id, hit.idx)
        scored == Scored(st1.message_index_maps[conv_id][hit.idx + 1],
                         hit.score, SAME_FACTOR)
    IN  foreign_hits_undiscounted(st1, conv_id, Tail(hits),
                     IF Passes(scored) THEN Append(results, scored) ELSE results)

\* the hits of one foreign conversation's index, each tagged with its source
RECURSIVE foreign_hits(_, _, _, _)
foreign_hits(st, conv_id, hits, results) ==
    IF hits = <<>> THEN [st |-> st, results |-> results]
    ELSE
    LET hit == Head(hits) IN
    IF hit.idx >= Len(st.message_index_maps[conv_id])
    THEN foreign_hits(st, conv_id, Tail(hits), results)
    ELSE
    LET st1 == tag_source(st, conv_id, hit.idx)
        scored == Scored(st1.message_index_maps[conv_id][hit.idx + 1],
                         hit.score, CROSS_FACTOR)
    IN  foreign_hits(st1, conv_id, Tail(hits),
                     IF Passes(scored) THEN Append(results, scored) ELSE results)

\* the loop over self.faiss_indices.items() that skips the current conversation
RECURSIVE search_foreign(_, _, _, _, _)
search_foreign(st, conv_ids, conversation_id, query_vector, results) ==
    IF conv_ids = {} THEN [st |-> st, results |-> results]
    ELSE
    LET conv_id == FirstConv(conv_ids)
        rest == conv_ids \ {conv_id}
    IN
    IF conv_id = conversation_id
    THEN search_foreign(st, rest, conversation_id, query_vector, results)
    ELSE
    LET rows == st.faiss_indices[conv_id] IN
    IF Len(rows) = 0 \/ conv_id \notin DOMAIN st.message_index_maps
    THEN search_foreign(st, rest, conversation_id, query_vector, results)
    ELSE
    LET k == Min(retrieval_top_k * 2, Len(rows))
        got == foreign_hits(st, conv_id, faiss_search(rows, query_vector, k), results)
    IN  search_foreign(got.st, rest, conversation_id, query_vector, got.results)

\* the position (from 0) of the first message with the id of msg, or -1;
\* two messages without an id have the same .get('id')
MsgPos(current_conversation_messages, msg) ==
    LET same == {j \in DOMAIN current_conversation_messages :
                    current_conversation_messages[j].id = msg.id}
    IN  IF same = {} THEN 0 - 1
        ELSE (CHOOSE j \in same : \A i \in same : j <= i) - 1

\* the hits of the current conversation's index, the recent ones excluded
RECURSIVE current_hits(_, _, _, _, _)
current_hits(message_map, current_conversation_messages, exclude_recent_count, hits, results) ==
    IF hits = <<>> THEN results
    ELSE
    LET hit == Head(hits)
        continue == current_hits(message_map, current_conversation_messages,
                                 exclude_recent_count, Tail(hits), results)
    IN
    IF hit.idx >= Len(message_map) THEN continue
    ELSE
    LET msg == message_map[hit.idx + 1] IN
    IF /\ exclude_recent_count > 0
       /\ MsgPos(current_conversation_messages, msg)
            >= Len(current_conversation_messages) - exclude_recent_count
    THEN continue
    ELSE
    LET scored == Scored(msg, hit.score, SAME_FACTOR) IN
    current_hits(message_map, current_conversation_messages, exclude_recent_count,
                 Tail(hits), IF Passes(scored) THEN Append(results, scored) ELSE results)

\* the linear scan of one conversation's old messages
RECURSIVE linear_hits(_, _, _, _, _, _, _)
linear_hits(st, conv_id, old_messages, factor, query_vector, results, env) ==
    IF old_messages = <<>> THEN [st |-> st, results |-> results]
    ELSE
    LET msg == Head(old_messages) IN
    IF TooShort(msg.content)
    THEN linear_hits(st, conv_id, Tail(old_messages), factor, query_vector, results, env)
    ELSE
    LET got == get_vector(st, msg.content, env) IN
    IF got.vector = NoVector
    THEN linear_hits(got.st, conv_id, Tail(old_messages), factor, query_vector, results,
                     env)
    ELSE
    LET scored == Scored([msg EXCEPT !.src = conv_id],
                         Dot(query_vector, got.vector), factor)
    IN  linear_hits(got.st, conv_id, Tail(old_messages), factor, query_vector,
                    IF Passes(scored) THEN Append(results, scored) ELSE results, env)

\* the loop over self.memory.items() of the linear scan
RECURSIVE linear_scan(_, _, _, _, _, _, _)
linear_scan(st, conv_ids, conversation_id, exclude_recent_count, query_vector, results, env) ==
    IF conv_ids = {} THEN [st |-> st, results |-> results]
    ELSE
    LET conv_id == FirstConv(conv_ids)
        rest == conv_ids \ {conv_id}
        conversation_messages == NonSystem(st.memory[conv_id].messages)
    IN
    IF conv_id = conversation_id /\ Len(conversation_messages) <= exclude_recent_count
    THEN linear_scan(st, rest, conversation_id, exclude_recent_count, query_vector,
                     results, env)
    ELSE
    LET old_messages == IF conv_id = conversation_id
                        THEN PyDropTail(conversation_messages, exclude_recent_count)
                        ELSE conversation_messages
        got == linear_hits(st, conv_id, old_messages,
                           IF conv_id # conversation_id THEN CROSS_FACTOR ELSE SAME_FACTOR,
                           query_vector, results, env)
    IN  linear_scan(got.st, rest, conversation_id, exclude_recent_count, query_vector,
                    got.results, env)

\* lines 587-592
current_messages(st, conversation_id) ==
    IF conversation_id \in DOMAIN st.memory
    THEN NonSystem(st.memory[conversation_id].messages)
    ELSE <<>>

\* lines 596-639: the hits of the other conversations' indices
with_foreign(st, conversation_id, query_vector) ==
    IF faiss_available
    THEN search_foreign(st, DOMAIN st.faiss_indices, conversation_id, query_vector, <<>>)
    ELSE [st |-> st, results |-> <<>>]

\* lines 641-683: the hits of the current conversation's index, added to results
with_current(st, results, current_conversation_messages, conversation_id, exclude_recent_count, query_vector) ==
    IF faiss_available /\ conversation_id \in DOMAIN st.faiss_indices
    THEN LET rows == st.faiss_indices[conversation_id]
             k == Min(retrieval_top_k * 3, Len(rows))
         IN  IF Len(rows) > 0
             THEN current_hits(st.message_index_maps[conversation_id],
                               current_conversation_messages, exclude_recent_count,
                               faiss_search(rows, query_vector, k), results)
             ELSE results
    ELSE results

\* lines 685-725: the linear scan, when FAISS is missing or no index exists
with_linear(st, results, conversation_id, exclude_recent_count, query_vector, env) ==
    IF ~faiss_available \/ DOMAIN st.faiss_indices = {}
    THEN linear_scan(st, DOMAIN st.memory, conversation_id, exclude_recent_count,
                     query_vector, results, env)
    ELSE [st |-> st, results |-> results]

\* lines 727-737: the messages of the top results, best first
final_results(found) ==
    LET top == PyHead(SortByScore(<<>>, found.results), retrieval_top_k)
    IN  [messages |-> [i \in DOMAIN top |-> top[i].message], st |-> found.st,
         candidates |-> found.results]

\* lines 641-737, given the outcome of the search of the other conversations
retrieve_after_foreign(foreign, current_conversation_messages, conversation_id, exclude_recent_count, query_vector, env) ==
    final_results(
        with_linear(foreign.st,
                    with_current(foreign.st, foreign.results,
                                 current_conversation_messages, conversation_id,
                                 exclude_recent_count, query_vector),
                    conversation_id, exclude_recent_count, query_vector, env))

\* lines 580-737, given the outcome q of _get_vector(query)
retrieve_with_query(q, conversation_id, exclude_recent_count, env) ==
    IF q.vector = NoVector THEN [messages |-> <<>>, st |-> q.st, candidates |-> <<>>]
    ELSE retrieve_after_foreign(with_foreign(q.st, conversation_id, q.vector),
                                current_messages(q.st, conversation_id),
                                conversation_id, exclude_recent_count, q.vector, env)

\* returns the retrieved messages and the manager after the call
retrieve_cross_conversation(st, conversation_id, query, exclude_recent_count, env) ==
    retrieve_with_query(get_vector(st, query, env), conversation_id,
                        exclude_recent_count, env)

\* lines 580-737 when FAISS is missing: the linear scan alone
cross_without_faiss(q, conversation_id, exclude_recent_count, env) ==
    IF q.vector = NoVector THEN [messages |-> <<>>, st |-> q.st, candidates |-> <<>>]
    ELSE final_results(linear_scan(q.st, DOMAIN q.st.memory, conversation_id,
                                   exclude_recent_count, q.vector, <<>>, env))

\* `return []`
no_results(st) == [messages |-> <<>>, st |-> st, candidates |-> <<>>]

\* lines 562-568
single_kept(scored, results) == IF Passes(scored) THEN Append(results, scored) ELSE results

RECURSIVE single_linear_hits(_, _, _, _, _)

\* lines 553-568, given the outcome of _get_vector(content)
single_linear_step(got, msg, rest, query_vector, results, env) ==
    IF got.vector = NoVector
    THEN single_linear_hits(got.st, rest, query_vector, results, env)
    ELSE single_linear_hits(got.st, rest, query_vector,
                            single_kept(Scored(msg, Dot(query_vector, got.vector),
                                               SAME_FACTOR), results),
                            env)

\* lines 547-568: the linear scan of the conversation's old messages
single_linear_hits(st, old_messages, query_vector, results, env) ==
    IF old_messages = <<>> THEN [st |-> st, results |-> results]
    ELSE
    LET msg == Head(old_messages) IN
    IF TooShort(msg.content)
    THEN single_linear_hits(st, Tail(old_messages), query_vector, results, env)
    ELSE single_linear_step(get_vector(st, msg.content, env), msg, Tail(old_messages),
                            query_vector, results, env)

\* lines 478-535: the search of the conversation's index
single_indexed(st, conversation_id, exclude_recent_count, current_conversation_messages, query_vector) ==
    LET rows == st.faiss_indices[conversation_id]
        k == Min(retrieval_top_k * 3, Len(rows))
    IN  IF Len(rows) = 0 THEN no_results(st)
        ELSE final_results(
                [st |-> st,
                 results |-> current_hits(st.message_index_maps[conversation_id],
                                          current_conversation_messages,
                                          exclude_recent_count,
                                          faiss_search(rows, query_vector, k), <<>>)])

\* lines 463-571, given the outcome q of _get_vector(query); an index without a
\* message map raises KeyError, which falls back to the linear scan
single_with_query(q, conversation_id, exclude_recent_count, old_messages, conversation_messages, env) ==
    IF q.vector = NoVector THEN no_results(q.st)
    ELSE IF /\ faiss_available
            /\ conversation_id \in DOMAIN q.st.faiss_indices
            /\ conversation_id \in DOMAIN q.st.message_index_maps
         THEN single_indexed(q.st, conversation_id, exclude_recent_count,
                             conversation_messages, q.vector)
         ELSE final_results(single_linear_hits(q.st, old_messages, q.vector, <<>>, env))

\* lines 463-571 when FAISS is missing: the linear scan alone
single_without_faiss(q, old_messages, env) ==
    IF q.vector = NoVector THEN no_results(q.st)
    ELSE final_results(single_linear_hits(q.st, old_messages, q.vector, <<>>, env))

\* lines 456: the messages the linear scan looks at
old_messages_of(conversation_messages, exclude_recent_count) ==
    IF exclude_recent_count > 0
    THEN PyDropTail(conversation_messages, exclude_recent_count)
    ELSE conversation_messages

\* lines 442-459: whether the call returns [] before it embeds the query
single_returns_early(st, conversation_id, exclude_recent_count) ==
    \/ conversation_id \notin DOMAIN st.memory
    \/ Len(st.memory[conversation_id].messages) <= exclude_recent_count
    \/ old_messages_of(NonSystem(st.memory[conversation_id].messages),
                       exclude_recent_count) = <<>>

retrieve_single_conversation(st, conversation_id, query, exclude_recent_count, env) ==
    IF single_returns_early(st, conversation_id, exclude_recent_count)
    THEN no_results(st)
    ELSE single_with_query(get_vector(st, query, env), conversation_id,
                           exclude_recent_count,
                           old_messages_of(current_messages(st, conversation_id),
                                           exclude_recent_count),
                           current_messages(st, conversation_id), env)

\* retrieve_single_conversation when FAISS is missing
single_degraded(st, conversation_id, query, exclude_recent_count, env) ==
    IF single_returns_early(st, conversation_id, exclude_recent_count)
    THEN no_results(st)
    ELSE single_without_faiss(get_vector(st, query, env),
                              old_messages_of(current_messages(st, conversation_id),
                                              exclude_recent_count),
                              env)

retrieve_relevant_messages(st, conversation_id, query, exclude_recent_count, cross_conversation, env) ==
    IF cross_conversation
    THEN retrieve_cross_conversation(st, conversation_id, query, exclude_recent_count, env)
    ELSE retrieve_single_conversation(st, conversation_id, query, exclude_recent_count,
                                      env)

\* retrieve_relevant_messages when FAISS is missing
retrieve_degraded(st, conversation_id, query, exclude_recent_count, cross_conversation, env) ==
    IF cross_conversation
    THEN cross_without_faiss(get_vector(st, query, env), conversation_id,
                             exclude_recent_count, env)
    ELSE single_degraded(st, conversation_id, query, exclude_recent_count, env)

-----------------------------------------------------------------------------
(* The context assembler. *)

BaseSystemContent == <<"<persona>">>
HintHeader == <<"<background>", "\n">>
HINT_LIMIT == 3
PREVIEW_LEN == 80

\* sorted(retrieved_messages, key=timestamp): stable, ascending; a message
\* without a timestamp has the key '' and comes first
RECURSIVE InsertByTime(_, _)
InsertByTime(sorted, x) ==
    IF sorted = <<>> THEN <<x>>
    ELSE IF Head(sorted).timestamp <= x.timestamp
         THEN <<Head(sorted)>> \o InsertByTime(Tail(sorted), x)
         ELSE <<x>> \o sorted

RECURSIVE SortByTime(_, _)
SortByTime(sorted, rest) ==
    IF rest = <<>> THEN sorted
    ELSE SortByTime(InsertByTime(sorted, Head(rest)), Tail(rest))

IsUser(msg) == msg.role = "user"

Preview(content) ==
    IF Len(content) > PREVIEW_LEN
    THEN SubSeq(content, 1, PREVIEW_LEN) \o <<"...">>
    ELSE content

RECURSIVE HintLines(_, _)
HintLines(user_messages, i) ==
    IF user_messages = <<>> THEN <<>>
    ELSE <<ToString(i), ". ">> \o Preview(Head(user_messages).content) \o <<"\n">>
         \o HintLines(Tail(user_messages), i + 1)

\* the system text with the header of the hints put before the persona whatever
\* was retrieved
system_content_always_hints(retrieved_messages) ==
    HintHeader \o <<"\n">> \o BaseSystemContent

system_content(retrieved_messages) ==
    LET retrieved_user_messages ==
            PyHead(SelectSeq(SortByTime(<<>>, retrieved_messages), IsUser), HINT_LIMIT)
    IN  IF retrieved_user_messages = <<>> THEN BaseSystemContent
        ELSE HintHeader \o HintLines(retrieved_user_messages, 1) \o <<"\n">>
             \o BaseSystemContent

\* lines 749-764: the attempt to restart a window that does not start on a user turn
repair_first(recent_messages, non_system_messages) ==
    IF recent_messages # <<>> /\ recent_messages[1].role # "user"
    THEN
        LET users == {i \in 0..(Len(non_system_messages) - 1) :
                        non_system_messages[i + 1].role = "user"}
        IN  IF users = {} THEN recent_messages
            ELSE
            LET i == CHOOSE u \in users : \A v \in users : u <= v
                start0 == Max(0, Len(non_system_messages) - max_recent_messages + 1)
                start_idx == IF i < start0 THEN i ELSE start0
                from_start == PyFrom(non_system_messages, start_idx)
            IN  IF Len(from_start) > max_recent_messages - 1
                THEN PyTail(from_start, max_recent_messages - 1)
                ELSE from_start
    ELSE recent_messages

\* build_context without lines 766-790: the window is left as selected
repair_last_skipped(st, conversation_id, recent_messages) == recent_messages

\* lines 766-790: a window that ends on a user turn gets the stored reply to
\* that turn, or loses the turn
repair_last(st, conversation_id, recent_messages) ==
    IF recent_messages # <<>> /\ recent_messages[Len(recent_messages)].role = "user"
    THEN
        LET last_user_id == recent_messages[Len(recent_messages)].id
            memory_non_system ==
                IF conversation_id \in DOMAIN st.memory
                THEN NonSystem(st.memory[conversation_id].messages)
                ELSE <<>>
            replied == {i \in 0..(Len(memory_non_system) - 2) :
                          /\ memory_non_system[i + 1].id = last_user_id
                          /\ memory_non_system[i + 2].role = "assistant"}
            with_reply ==
                IF last_user_id # NoId /\ replied # {}
                THEN Append(recent_messages,
                            memory_non_system[(CHOOSE i \in replied :
                                                \A j \in replied : i <= j) + 2])
                ELSE recent_messages
        IN  IF with_reply[Len(with_reply)].role = "user"
            THEN PyDropTail(with_reply, 1)
            ELSE with_reply
    ELSE recent_messages

\* assemble without lines 842-851: the new message is not appended and the
\* role of the last message is not checked
assemble_without_current(system_messages, recent_messages, current_message) ==
    LET context_messages == system_messages \o recent_messages
        n == Len(context_messages)
    IN  IF n >= 2 /\ context_messages[n - 1].role = "user" THEN <<>>
        ELSE context_messages

\* assemble with the window put before the system messages
assemble_window_first(system_messages, recent_messages, current_message) ==
    LET context_messages ==
            recent_messages \o system_messages
            \o <<Msg("user", current_message, NoId, NoTime, NoCid)>>
        n == Len(context_messages)
    IN  IF context_messages[n].role # "user" THEN <<>>
        ELSE IF n >= 2 /\ context_messages[n - 1].role = "user" THEN <<>>
        ELSE context_messages

\* lines 837-856: the assembled list, or the empty list when a final check fails
assemble(system_messages, recent_messages, current_message) ==
    LET context_messages ==
            system_messages \o recent_messages
            \o <<Msg("user", current_message, NoId, NoTime, NoCid)>>
        n == Len(context_messages)
    IN  IF context_messages[n].role # "user" THEN <<>>
        ELSE IF n >= 2 /\ context_messages[n - 1].role = "user" THEN <<>>
        ELSE context_messages

\* lines 744-790: the messages of the history that go into the context
recent_messages_of(st, conversation_id, non_system_messages) ==
    repair_last(st, conversation_id,
                repair_first(get_sliding_window(non_system_messages, max_recent_messages),
                             non_system_messages))

\* lines 828-872, given the system content: the context, the manager after the
\* call, and the caller's history after the call (the content of its first
\* system message is overwritten)
context_with_system(st, content, current_message, conversation_history, recent_messages) ==
    LET system_positions == {i \in DOMAIN conversation_history :
                                IsSystem(conversation_history[i])}
        first == CHOOSE i \in system_positions : \A j \in system_positions : i <= j
        history_after ==
            IF system_positions = {} THEN conversation_history
            ELSE [i \in 1..Len(conversation_history) |->
                    IF i = first
                    THEN [conversation_history[i] EXCEPT !.content = content]
                    ELSE conversation_history[i]]
        system_messages ==
            IF system_positions = {}
            THEN <<Msg("system", content, NoId, NoTime, NoCid)>>
            ELSE SelectSeq(history_after, IsSystem)
    IN  [context |-> assemble(system_messages, recent_messages, current_message),
         st |-> st,
         history |-> history_after,
         given |-> conversation_history,
         window |-> recent_messages]

\* lines 801-872, given the outcome of the retrieval
context_with_retrieved(retrieved, current_message, conversation_history, recent_messages) ==
    context_with_system(retrieved.st, system_content(retrieved.messages),
                        current_message, conversation_history, recent_messages)
        @@ [retrieved |-> retrieved.messages]

\* lines 794-872, given the messages of the history that go into the context
context_with_recent(st, conversation_id, current_message, conversation_history, recent_messages, env) ==
    context_with_retrieved(
        retrieve_cross_conversation(st, conversation_id, current_message,
                                    Len(recent_messages), env),
        current_message, conversation_history, recent_messages)
        @@ [embedded |-> get_vector(st, current_message, env).vector # NoVector]

\* beside the context: the manager after the call, the history as given and
\* as it is after the call, the result of the selector, the window that went
\* into the context and the messages retrieved
build_context(st, conversation_id, current_message, conversation_history, env) ==
    context_with_recent(st, conversation_id, current_message, conversation_history,
                        recent_messages_of(st, conversation_id,
                                           NonSystem(conversation_history)),
                        env)
        @@ [selected |-> get_sliding_window(NonSystem(conversation_history),
                                            max_recent_messages)]

-----------------------------------------------------------------------------
(* The chat handler. *)

RECURSIVE Join(_)
Join(text) == IF text = <<>> THEN "" ELSE Head(text) \o Join(Tail(text))

\* hashlib.md5(content.encode()).hexdigest()[:16]
md5_16(content) == "md5:" \o Join(content)

\* lines 80-97: the request's id, else the first id found in the history, else
\* a digest of the first history message, else a digest of the new message
chat_conversation_id(request_id, message, conversation_history) ==
    IF request_id # NoCid THEN request_id
    ELSE IF conversation_history # <<>>
    THEN LET with_id == {i \in DOMAIN conversation_history :
                            conversation_history[i].conversation_id # NoCid}
         IN  IF with_id # {}
             THEN conversation_history[CHOOSE i \in with_id :
                                          \A j \in with_id : i <= j].conversation_id
             ELSE md5_16(conversation_history[1].content)
    ELSE md5_16(message)

\* lines 102-112: copies of the history messages, each with a timestamp and
\* the conversation id; the timestamp given is some minutes before now
enriched_history(conversation_history, conversation_id) ==
    [i \in DOMAIN conversation_history |->
        [conversation_history[i] EXCEPT
            !.timestamp = IF @ = NoTime THEN now ELSE @,
            !.conversation_id = conversation_id]]

\* lines 121-130: what the handler has done when requests.post returns (the
\* context it built, the payloads it has posted to the inference service) and
\* the manager after the call
post_context(built, conversation_id, message, conversation_history) ==
    [chat |-> [conversation_id |-> conversation_id, message |-> message,
               history |-> conversation_history, context |-> built.context,
               posted |-> <<built.context>>,
               given |-> built.given, history_after |-> built.history,
               selected |-> built.selected, window |-> built.window,
               retrieved |-> built.retrieved, embedded |-> built.embedded],
     st |-> built.st]

\* lines 99-130, given the conversation id
chat_with_id(st, conversation_id, message, conversation_history, env) ==
    post_context(build_context(st, conversation_id, message,
                               enriched_history(conversation_history, conversation_id),
                               env),
                 conversation_id, message, conversation_history)

handle_chat(st, request_id, message, conversation_history, env) ==
    chat_with_id(st, chat_conversation_id(request_id, message, conversation_history),
                 message, conversation_history, env)

-----------------------------------------------------------------------------
(* Inputs of the store operations. *)

StartTime == 24 * 365

InPool ==
    { Msg("user", Sad, "a", NoTime, NoCid),
      Msg("assistant", PaddedOk, NoId, NoTime, NoCid),
      Msg("system", Sad, "c1_1", NoTime, NoCid) }

Batches == SeqsUpTo(InPool, MaxBatch)

MetaInputs == {[present |-> TRUE, title |-> "t"]}

RECURSIVE SumLen(_, _)
SumLen(mem, ids) ==
    IF ids = {} THEN 0
    ELSE LET c == CHOOSE x \in ids : TRUE
         IN  Len(mem[c].messages) + SumLen(mem, ids \ {c})

TotalStored(mem) == SumLen(mem, DOMAIN mem)

\* what the store held for a conversation when an operation on it was called:
\* the length of its message list (-1 when the id was not stored) and
\* whether it had an index
Before(conversation_id) ==
    [count |-> IF conversation_id \in DOMAIN memory
               THEN Len(memory[conversation_id].messages)
               ELSE 0 - 1,
     indexed |-> conversation_id \in DOMAIN faiss_indices]

NoOp == [op |-> "none", conversation_id |-> NoCid, messages |-> <<>>, ret |-> FALSE,
         before |-> [count |-> 0 - 1, indexed |-> FALSE]]

NoSel == [messages |-> <<>>, max_messages |-> 0, result |-> <<>>, done |-> FALSE]

NoChat == [conversation_id |-> NoCid, message |-> <<>>, history |-> <<>>,
           context |-> <<>>, posted |-> <<>>, given |-> <<>>, history_after |-> <<>>,
           selected |-> <<>>, window |-> <<>>, retrieved |-> <<>>, embedded |-> FALSE]

\* the handlers run one at a time: none starts before the last one has returned
Idle == lastOp = NoOp /\ chat = NoChat

\* the handler returns its reply
Return ==
    /\ ~Idle
    /\ lastOp' = NoOp
    /\ chat' = NoChat
    /\ UNCHANGED <<memory, faiss_indices, message_index_maps, map_alias, vector_cache,
                   disk, max_recent_messages, now, faiss_available, faults, returned,
                   queue, sel>>

-----------------------------------------------------------------------------
(* Actions of the store. *)

AddMessages(conversation_id, messages) ==
    \E env \in Envs :
        LET st == add_messages(St, conversation_id, messages, env) IN
        /\ Idle
        /\ TotalStored(st.memory) <= MaxStored
        /\ SetSt(st)
        /\ lastOp' = [op |-> "append", conversation_id |-> conversation_id,
                      messages |-> messages, ret |-> TRUE,
                      before |-> Before(conversation_id),
                      io_ok |-> env.io_ok, stale |-> disk.memory # memory]
        /\ UNCHANGED <<max_recent_messages, now, faiss_available, faults, returned,
                   queue, chat, sel>>

SyncConversation(conversation_id, messages, metadata) ==
    \E env \in Envs :
        LET st == sync_conversation(St, conversation_id, messages, metadata, env) IN
        /\ Idle
        /\ TotalStored(st.memory) <= MaxStored
        /\ SetSt(st)
        /\ lastOp' = [op |-> "sync", conversation_id |-> conversation_id,
                      messages |-> messages, ret |-> TRUE,
                      before |-> Before(conversation_id),
                      io_ok |-> env.io_ok, stale |-> disk.memory # memory]
        /\ UNCHANGED <<max_recent_messages, now, faiss_available, faults, returned,
                   queue, chat, sel>>

DeleteConversation(conversation_id) ==
    \E env \in Envs :
        /\ Idle
        /\ SetSt(delete_conversation(St, conversation_id, env))
        /\ lastOp' = [op |-> "delete", conversation_id |-> conversation_id,
                      messages |-> <<>>, ret |-> delete_found(St, conversation_id),
                      before |-> Before(conversation_id),
                      io_ok |-> env.io_ok, stale |-> disk.memory # memory]
        /\ UNCHANGED <<max_recent_messages, now, faiss_available, faults, returned,
                   queue, chat, sel>>

EmptyDisk == [memory |-> EmptyDict,
              vectors |-> [faiss_indices |-> EmptyDict, message_index_maps |-> EmptyDict],
              cache |-> EmptyDict]

\* a manager constructed with no persisted files
EmptyManager ==
    /\ memory = EmptyDict
    /\ faiss_indices = EmptyDict
    /\ message_index_maps = EmptyDict
    /\ map_alias = EmptyDict
    /\ vector_cache = EmptyDict
    /\ disk = EmptyDisk
    /\ now = StartTime
    /\ faiss_available = TRUE
    /\ lastOp = NoOp
    /\ chat = NoChat
    /\ returned = EmptyDict
    /\ queue = {}

Init ==
    /\ EmptyManager
    /\ max_recent_messages = MaxWindow
    /\ faults = {}
    /\ sel = NoSel

Next ==
    \/ \E c \in ConvIds, b \in Batches : AddMessages(c, b)
    \/ \E c \in ConvIds, b \in Batches, m \in MetaInputs : SyncConversation(c, b, m)
    \/ \E c \in ConvIds : DeleteConversation(c)
    \/ Return

Spec == Init /\ [][Next]_vars

-----------------------------------------------------------------------------
(* Histories. *)

SelRoles == {"user", "assistant"}

\* the message at position k (from 0) of a history, with the given role
HistMsg(role, k) == Msg(role, Sad, "m" \o ToString(k), StartTime, NoCid)

Histories(n) == {[k \in DOMAIN roles |-> HistMsg(roles[k], k - 1)] :
                    roles \in SeqsUpTo(SelRoles, n)}

CallSelector ==
    /\ ~sel.done
    /\ sel' = [sel EXCEPT !.result = get_sliding_window(sel.messages, sel.max_messages),
                          !.done = TRUE]
    /\ UNCHANGED <<memory, faiss_indices, message_index_maps, map_alias,
                   vector_cache, disk, max_recent_messages, now, faiss_available, faults, returned,
                   queue, lastOp,
                   chat>>

-----------------------------------------------------------------------------
(* The chat handler on conversations the front end has synchronised. *)

ChatMessages == {Sad, Hi}

\* a history as the front end sends it: with or without a leading system message
ChatHistories ==
    Histories(MaxLen)
    \cup {<<Msg("system", BaseSystemContent, NoId, NoTime, NoCid)>> \o h :
            h \in Histories(MaxLen)}

Chat(request_id, message, conversation_history) ==
    \E env \in Envs :
        LET done == handle_chat(St, request_id, message, conversation_history, env)
        IN  /\ Idle
            /\ SetSt(done.st)
            /\ chat' = done.chat
            /\ UNCHANGED <<max_recent_messages, now, faiss_available, faults, returned,
                   queue, lastOp,
                           sel>>

InitCtx ==
    /\ EmptyManager
    /\ max_recent_messages \in 1..MaxWindow
    /\ faults = {}
    /\ sel = NoSel

\* the front end synchronises one conversation; a chat request names it or
\* names no conversation
SyncIds == {ConvOrder[1]}
ChatIds == {ConvOrder[1], NoCid}

NextCtx ==
    \/ \E c \in SyncIds, h \in Histories(MaxSync), m \in MetaInputs :
            SyncConversation(c, h, m)
    \/ \E c \in ChatIds, message \in ChatMessages, h \in ChatHistories :
            Chat(c, message, h)
    \/ Return

SpecCtx == InitCtx /\ [][NextCtx]_vars

-----------------------------------------------------------------------------
(* The selector on its own. *)

InitSel ==
    /\ EmptyManager
    /\ max_recent_messages \in 1..MaxWindow
    /\ faults = {}
    /\ \E h \in Histories(MaxLen) :
          sel = [messages |-> h, max_messages |-> max_recent_messages,
                 result |-> <<>>, done |-> FALSE]

NextSel == CallSelector

SpecSel == InitSel /\ [][NextSel]_vars

-----------------------------------------------------------------------------
(* Properties of the context assembler and of the chat handler (SpecCtx). *)

AdjacentUsers(messages) ==
    \E i \in 1..(Len(messages) - 1) :
        messages[i].role = "user" /\ messages[i + 1].role = "user"

\* C1: a non-empty result of build_context ends with a message of role user,
\* and that message carries the text of the current message.
C1_LastIsCurrentUser ==
    chat.context # <<>> =>
        LET last == chat.context[Len(chat.context)]
        IN  last.role = "user" /\ last.content = chat.message

\* a request on a stored conversation, with a history, that got a context
C1_Witness ==
    /\ chat.context # <<>>
    /\ chat.history # <<>>
    /\ chat.conversation_id \in DOMAIN memory
    /\ Len(chat.context) >= 3

\* C2: no result of build_context has two adjacent messages of role user, at
\* any position.
C2_NoAdjacentUsers == ~AdjacentUsers(chat.context)

\* C4: when build_context returns the empty list, the handler posts nothing
\* to the inference service.
C4_EmptyContextNotPosted == (chat # NoChat /\ chat.context = <<>>) => chat.posted = <<>>

-----------------------------------------------------------------------------
(* Properties of the selector (SpecSel). *)

\* C5: the selector returns at most window_size - 1 messages.
C5_AtMostWindowLessOne == sel.done => Len(sel.result) <= sel.max_messages - 1

\* C6: a non-empty result of the selector starts with a message of role user.
C6_StartsWithUser == (sel.done /\ sel.result # <<>>) => sel.result[1].role = "user"

-----------------------------------------------------------------------------
(* Properties of the store and of the index (Spec). *)

Eligible(msg) == NotSystem(msg) /\ ~TooShort(msg.content)

MapOf(conversation_id) ==
    IF conversation_id \in DOMAIN message_index_maps
    THEN message_index_maps[conversation_id]
    ELSE <<>>

RowsOf(conversation_id) ==
    IF conversation_id \in DOMAIN faiss_indices
    THEN faiss_indices[conversation_id]
    ELSE <<>>

\* C3: for every stored conversation the message map has as many entries as
\* the conversation has eligible messages, and row i of the index is the
\* vector of the message at entry i of the map.
C3_IndexMatchesStore ==
    \A c \in DOMAIN memory :
        /\ Len(MapOf(c)) = Len(SelectSeq(memory[c].messages, Eligible))
        /\ Len(RowsOf(c)) = Len(MapOf(c))
        /\ \A i \in DOMAIN MapOf(c) : RowsOf(c)[i] = Embed(MapOf(c)[i].content)

\* C7: an append whose messages all carry ids the conversation already holds
\* leaves the conversation's message list and message count unchanged.
C7_AppendOfKnownIdsIsNoOp ==
    [][\A c \in ConvIds :
          (/\ lastOp'.op = "append"
           /\ lastOp'.conversation_id = c
           /\ c \in DOMAIN memory
           /\ \A i \in DOMAIN lastOp'.messages :
                 /\ lastOp'.messages[i].id # NoId
                 /\ lastOp'.messages[i].id \in IdsOf(memory[c].messages))
          => /\ memory'[c].messages = memory[c].messages
             /\ memory'[c].metadata.message_count = Len(memory[c].messages)]_vars

\* an append of a non-empty batch of messages with ids that stored nothing
C7_Witness ==
    /\ lastOp.op = "append"
    /\ lastOp.messages # <<>>
    /\ \A i \in DOMAIN lastOp.messages : lastOp.messages[i].id # NoId
    /\ lastOp.before.count > 0
    /\ lastOp.before.count = Len(memory[lastOp.conversation_id].messages)

\* C8: no two messages of a stored conversation have the same id.
C8_IdsUnique ==
    \A c \in DOMAIN memory :
        \A i, j \in DOMAIN memory[c].messages :
            (i # j /\ memory[c].messages[i].id # NoId)
                => memory[c].messages[i].id # memory[c].messages[j].id

\* C9: after a sync the stored list is the normalized incoming list, and no
\* entry of the index is a message of the conversation's earlier content.
C9_SyncReplaces ==
    lastOp.op = "sync" =>
        LET c == lastOp.conversation_id IN
        /\ memory[c].messages =
              [i \in DOMAIN lastOp.messages |-> backend_msg(lastOp.messages[i], c)]
        /\ Len(RowsOf(c)) = Len(MapOf(c))
        /\ \A i \in DOMAIN MapOf(c) :
              \E j \in DOMAIN memory[c].messages : memory[c].messages[j] = MapOf(c)[i]

\* C10: a delete of a stored conversation removes the conversation, its index
\* and its message map, and leaves every other conversation's messages, index
\* and map as they were.
C10_DeleteRemovesOnlyThat ==
    [][\A c \in ConvIds :
          (lastOp'.op = "delete" /\ lastOp'.conversation_id = c /\ c \in DOMAIN memory)
          => /\ c \notin DOMAIN memory'
             /\ c \notin DOMAIN faiss_indices'
             /\ c \notin DOMAIN message_index_maps'
             /\ DOMAIN memory' = DOMAIN memory \ {c}
             /\ DOMAIN faiss_indices' = DOMAIN faiss_indices \ {c}
             /\ DOMAIN message_index_maps' = DOMAIN message_index_maps \ {c}
             /\ \A d \in DOMAIN memory' : memory'[d] = memory[d]
             /\ \A d \in DOMAIN faiss_indices' : faiss_indices'[d] = faiss_indices[d]
             /\ \A d \in DOMAIN message_index_maps' :
                   message_index_maps'[d] = message_index_maps[d]]_vars

\* a delete of a stored, indexed conversation while another one stays indexed
C10_Witness ==
    /\ lastOp.op = "delete"
    /\ lastOp.ret
    /\ lastOp.before.count > 0
    /\ lastOp.before.indexed
    /\ DOMAIN memory # {}
    /\ DOMAIN faiss_indices # {}
    /\ DOMAIN message_index_maps # {}

\* C11: a delete of an id that is not stored returns False and changes nothing
\* in the store, the indexes, the message maps, the cache or the files.
C11_DeleteOfAbsentIsNoOp ==
    [][\A c \in ConvIds :
          (lastOp'.op = "delete" /\ lastOp'.conversation_id = c /\ c \notin DOMAIN memory)
          => /\ lastOp'.ret = FALSE
             /\ UNCHANGED <<memory, faiss_indices, message_index_maps, vector_cache,
                            disk>>]_vars

\* a delete of an id that is not stored, after earlier operations have filled
\* the cache, while another conversation is stored and indexed
C11_Witness ==
    /\ lastOp.op = "delete"
    /\ lastOp.before.count < 0
    /\ ~lastOp.ret
    /\ DOMAIN vector_cache # {}
    /\ DOMAIN memory # {}
    /\ DOMAIN faiss_indices # {}

-----------------------------------------------------------------------------
(* The manager with an Embedder that may fail, and direct calls of         *)
(* _get_vector.                                                            *)

Texts == {Sad, Glad, Hi}

\* the batches of at most one message
SmallBatches == SeqsUpTo(InPool, 1)

GetVector(content) ==
    \E env \in Envs :
        LET got == get_vector(St, content, env) IN
        /\ Idle
        /\ SetSt(got.st)
        /\ lastOp' = [op |-> "get_vector", conversation_id |-> NoCid, messages |-> <<>>,
                      ret |-> got.vector # NoVector, before |-> NoOp.before,
                      content |-> content, vector |-> got.vector,
                      again |-> content \in DOMAIN returned,
                      embedder_up |-> env.embedder_up]
        /\ returned' = IF got.vector # NoVector /\ content \notin DOMAIN returned
                       THEN DictSet(returned, content, got.vector)
                       ELSE returned
        /\ UNCHANGED <<max_recent_messages, now, faiss_available, faults, queue, chat,
                       sel>>

InitFaulty ==
    /\ EmptyManager
    /\ max_recent_messages = MaxWindow
    /\ faults = {"embedder"}
    /\ sel = NoSel

NextFaulty ==
    \/ \E content \in Texts : GetVector(content)
    \/ \E c \in SyncIds, b \in SmallBatches : AddMessages(c, b)
    \/ \E c \in SyncIds, b \in SmallBatches, m \in MetaInputs : SyncConversation(c, b, m)
    \/ \E c \in SyncIds : DeleteConversation(c)
    \/ \E c \in ChatIds, message \in ChatMessages, h \in Histories(1) : Chat(c, message, h)
    \/ Return

SpecFaulty == InitFaulty /\ [][NextFaulty]_vars

\* C12: once _get_vector has returned a vector for a text, every later call
\* with the same text returns that vector, whether or not the Embedder answers.
C12_SameTextSameVector ==
    (lastOp.op = "get_vector" /\ lastOp.content \in DOMAIN returned)
        => lastOp.vector = returned[lastOp.content]

\* a repeated call for a text, made while the Embedder is down, that returned
\* a vector
C12_Witness ==
    /\ lastOp.op = "get_vector"
    /\ lastOp.again
    /\ ~lastOp.embedder_up
    /\ lastOp.vector # NoVector

\* C13: no step removes a key of the cache or changes the vector of a key the
\* cache holds.
C13_CacheOnlyGrows ==
    [][\A h \in DOMAIN vector_cache :
          h \in DOMAIN vector_cache' /\ vector_cache'[h] = vector_cache[h]]_vars

\* a delete of a stored conversation that left a cache of two entries behind
C13_Witness ==
    /\ lastOp.op = "delete"
    /\ lastOp.ret
    /\ lastOp.before.count > 0
    /\ Cardinality(DOMAIN vector_cache) >= 2

-----------------------------------------------------------------------------
(* Retrieval on synchronised conversations.  The current conversation is    *)
(* short, with or without message ids, or longer than retrieval_top_k; the  *)
(* other conversation is short.                                            *)

RankPool ==
    { Msg("user", Sad, "a", StartTime, NoCid),
      Msg("user", Sad, NoId, StartTime, NoCid),
      Msg("user", Glad, NoId, StartTime - 100, NoCid) }

LongLen == retrieval_top_k + 2
LongAges == <<0, 100, 500>>

\* a conversation of more than retrieval_top_k user messages, of two contents
\* and three ages
LongList ==
    [k \in 1..LongLen |->
        Msg("user", IF k % 2 = 0 THEN Sad ELSE Glad, "m" \o ToString(k - 1),
            StartTime - LongAges[(k % 3) + 1], NoCid)]

RankLists == SeqsUpTo(RankPool, MaxSync) \cup {LongList}
ForeignLists == SeqsUpTo(RankPool, MaxForeign)

\* PUT /conversation/{id} with a message list of any length
LoadConversation(conversation_id, messages, metadata) ==
    \E env \in Envs :
        /\ Idle
        /\ SetSt(sync_conversation(St, conversation_id, messages, metadata, env))
        /\ lastOp' = [op |-> "sync", conversation_id |-> conversation_id,
                      messages |-> messages, ret |-> TRUE,
                      before |-> Before(conversation_id)]
        /\ UNCHANGED <<max_recent_messages, now, faiss_available, faults, returned,
                   queue, chat,
                       sel>>

\* retrieve_relevant_messages; the record keeps the call's arguments, the
\* messages it returned, the scored candidates they were taken from, the
\* stored non-system messages of the conversation, and what the same call
\* returns on the same store when FAISS is missing
Retrieve(conversation_id, query, exclude_recent_count, cross_conversation) ==
    \E env \in Envs :
        LET got == retrieve_relevant_messages(St, conversation_id, query,
                                              exclude_recent_count, cross_conversation,
                                              env)
            degraded == retrieve_degraded(St, conversation_id, query,
                                          exclude_recent_count, cross_conversation, env)
        IN  /\ Idle
            /\ SetSt(got.st)
            /\ lastOp' = [op |-> "retrieve", conversation_id |-> conversation_id,
                          messages |-> got.messages, ret |-> TRUE,
                          before |-> Before(conversation_id),
                          query |-> query,
                          exclude_recent_count |-> exclude_recent_count,
                          cross_conversation |-> cross_conversation,
                          candidates |-> got.candidates,
                          stored |-> current_messages(St, conversation_id),
                          degraded |-> degraded.messages,
                          embedded |-> get_vector(St, query, env).vector # NoVector]
            /\ UNCHANGED <<max_recent_messages, now, faiss_available, faults, returned,
                   queue,
                           chat, sel>>

RankQueries == {Sad, Hi}

NextRank ==
    \/ \E l \in RankLists, m \in MetaInputs : LoadConversation(ConvOrder[1], l, m)
    \/ \E l \in ForeignLists, m \in MetaInputs : LoadConversation(ConvOrder[2], l, m)
    \/ \E q \in RankQueries, n \in 0..MaxExclude, cross \in BOOLEAN :
            Retrieve(ConvOrder[1], q, n, cross)
    \/ Return

SpecRank == Init /\ [][NextRank]_vars

\* the place of candidate i of a list of scored candidates when the list is
\* ordered by descending score, equal scores in the order of the list
RankOf(cand, i) ==
    Cardinality({j \in DOMAIN cand :
                    \/ cand[j].score > cand[i].score
                    \/ cand[j].score = cand[i].score /\ j < i}) + 1

\* C14: retrieve returns at most retrieval_top_k messages, and they are the
\* first retrieval_top_k of the candidates that survived exclusion and the
\* threshold, taken by descending score with equal scores in search order.
C14_TopKInRankOrder ==
    lastOp.op = "retrieve" =>
        /\ Len(lastOp.messages) = Min(retrieval_top_k, Len(lastOp.candidates))
        /\ \A i \in DOMAIN lastOp.candidates :
                RankOf(lastOp.candidates, i) <= retrieval_top_k =>
                    lastOp.messages[RankOf(lastOp.candidates, i)]
                        = lastOp.candidates[i].message

\* a retrieval with more candidates than retrieval_top_k, two of equal score
\* among them, one inside and one outside the returned list
C14_Witness ==
    /\ lastOp.op = "retrieve"
    /\ Len(lastOp.candidates) > retrieval_top_k
    /\ Len(lastOp.messages) = retrieval_top_k
    /\ \E i, j \in DOMAIN lastOp.candidates :
            /\ i < j
            /\ lastOp.candidates[i].score = lastOp.candidates[j].score
            /\ RankOf(lastOp.candidates, i) <= retrieval_top_k
            /\ RankOf(lastOp.candidates, j) > retrieval_top_k

\* a message without its _source_conversation tag
Untagged(msg) == [msg EXCEPT !.src = NoSrc]

\* the last n of the stored non-system messages of the retrieval's conversation
RecentStored(n) ==
    {lastOp.stored[j] : j \in {i \in DOMAIN lastOp.stored : i > Len(lastOp.stored) - n}}

\* no two stored messages of the retrieval's conversation are equal
StoredDistinct ==
    \A i, j \in DOMAIN lastOp.stored : lastOp.stored[i] = lastOp.stored[j] => i = j

\* C15: with exclude_recent_count = n > 0, retrieve returns none of the last n
\* non-system messages of the current conversation's stored list, whether the
\* messages were stored with an id or without one (stated on stores whose
\* messages are pairwise different, where a returned message names one stored
\* message).
C15_RecentNeverReturned ==
    (/\ lastOp.op = "retrieve"
     /\ lastOp.exclude_recent_count > 0
     /\ StoredDistinct)
        => \A i \in DOMAIN lastOp.messages :
                Untagged(lastOp.messages[i])
                    \notin RecentStored(lastOp.exclude_recent_count)

\* a list of messages without their _source_conversation tags
UntaggedAll(messages) == [i \in DOMAIN messages |-> Untagged(messages[i])]

\* C16: for every store, query and exclude_recent_count, in single- and in
\* cross-conversation mode, the linear scan that runs when FAISS is missing
\* returns the same ordered list of messages as the indexed retrieval.
C16_DegradedSameAsIndexed ==
    lastOp.op = "retrieve" =>
        UntaggedAll(lastOp.degraded) = UntaggedAll(lastOp.messages)

-----------------------------------------------------------------------------
(* The score of a candidate, as a function of its similarity, its age and   *)
(* the factor of its conversation.                                          *)

\* inner products of normalised embeddings, in hundredths
Similarities == {0 - 100, 0 - 50, 0, 30, 60, 100}
\* ages in hours, on both sides of every step of _calculate_time_decay
Ages == {0, 24, 25, 168, 169, 720, 721}
Factors == {CROSS_FACTOR, SAME_FACTOR}

\* two candidates that differ only in timestamp, scored as lines 513-526 do
ScoreCandidates(similarity, age_recent, age_older, factor) ==
    /\ Idle
    /\ age_recent < age_older
    /\ lastOp' = [op |-> "score", conversation_id |-> NoCid, messages |-> <<>>,
                  ret |-> TRUE, before |-> NoOp.before,
                  recent |-> Scored(Msg("user", Sad, "a", now - age_recent, NoCid),
                                    similarity, factor),
                  older |-> Scored(Msg("user", Sad, "a", now - age_older, NoCid),
                                   similarity, factor)]
    /\ UNCHANGED <<memory, faiss_indices, message_index_maps, map_alias, vector_cache,
                   disk, max_recent_messages, now, faiss_available, faults, returned,
                   queue,
                   chat, sel>>

NextScore ==
    \/ \E similarity \in Similarities, age_recent, age_older \in Ages, factor \in Factors :
            ScoreCandidates(similarity, age_recent, age_older, factor)
    \/ Return

SpecScore == Init /\ [][NextScore]_vars

\* C17: of two candidates that differ only in timestamp, the more recent one
\* never gets the lower score, whatever the similarity in [-1, 1].
C17_RecentNeverLower ==
    lastOp.op = "score" => lastOp.recent.score >= lastOp.older.score

\* candidate i of the last retrieval comes from another conversation than the
\* one the retrieval was made for, candidate j from that conversation, and the
\* two have the same similarity and the same time decay
ForeignTwin(i, j) ==
    /\ lastOp.candidates[i].message.conversation_id # lastOp.conversation_id
    /\ lastOp.candidates[j].message.conversation_id = lastOp.conversation_id
    /\ lastOp.candidates[i].similarity = lastOp.candidates[j].similarity
    /\ lastOp.candidates[i].time_decay = lastOp.candidates[j].time_decay

\* C18: in cross-conversation retrieval, a candidate of a foreign conversation
\* is never returned before a candidate of the current conversation of equal
\* similarity and equal time decay.
C18_ForeignNeverFirst ==
    (lastOp.op = "retrieve" /\ lastOp.cross_conversation) =>
        \A i, j \in DOMAIN lastOp.candidates :
            ForeignTwin(i, j) =>
                \A p, q \in DOMAIN lastOp.messages :
                    (/\ lastOp.messages[p] = lastOp.candidates[i].message
                     /\ lastOp.messages[q] = lastOp.candidates[j].message) => q < p

\* a cross-conversation retrieval that returns such a pair
C18_Witness ==
    /\ lastOp.op = "retrieve"
    /\ lastOp.cross_conversation
    /\ \E i, j \in DOMAIN lastOp.candidates :
            /\ ForeignTwin(i, j)
            /\ \E p, q \in DOMAIN lastOp.messages :
                    /\ lastOp.messages[p] = lastOp.candidates[i].message
                    /\ lastOp.messages[q] = lastOp.candidates[j].message

-----------------------------------------------------------------------------
(* A rebuild seen step by step.  The handlers are coroutines without an     *)
(* await, run by one event loop: a request that arrives while a handler     *)
(* runs waits in the loop's queue until that handler has returned.          *)

\* a handler that never awaits cannot be interrupted by another handler
HandlerMayStartAnytime == TRUE

\* the event loop starts a handler only when no handler is running
HandlerMayStart == Idle

BuildPool ==
    { Msg("user", Sad, "a", NoTime, NoCid),
      Msg("user", Glad, "b", NoTime, NoCid),
      Msg("system", Sad, "s", NoTime, NoCid) }

BuildLists == SeqsUpTo(BuildPool, MaxSync)

\* what a reader finds at self.faiss_indices[id] and self.message_index_maps[id]
IndexSeen(conversation_id) ==
    [present |-> conversation_id \in DOMAIN faiss_indices,
     rows |-> RowsOf(conversation_id)]

MapSeen(conversation_id) ==
    [present |-> conversation_id \in DOMAIN message_index_maps,
     entries |-> MapOf(conversation_id)]

\* an index and a message map of one build: row i is the vector of entry i
SameBuild(index, message_map) ==
    /\ index.present = message_map.present
    /\ Len(index.rows) = Len(message_map.entries)
    /\ \A i \in DOMAIN index.rows :
            index.rows[i] = Embed(message_map.entries[i].content)

\* a search request reaches the server; it may do so while a handler runs
Arrive(conversation_id) ==
    /\ \A r \in queue : r.conversation_id # conversation_id
    /\ queue' = queue \cup
            {[conversation_id |-> conversation_id,
              half_built |-> ~SameBuild(IndexSeen(conversation_id),
                                        MapSeen(conversation_id))]}
    /\ UNCHANGED <<memory, faiss_indices, message_index_maps, map_alias, vector_cache,
                   disk, max_recent_messages, now, faiss_available, faults, returned,
                   lastOp, chat, sel>>

\* sync_conversation up to line 264 of the rebuild it triggers
SyncBegin(conversation_id, messages, metadata) ==
    \E env \in Envs :
        LET half == build_index_assigned(
                        sync_store(St, conversation_id, messages, metadata),
                        conversation_id, env)
        IN  /\ HandlerMayStart
            /\ SetSt(half.st)
            /\ lastOp' = [op |-> "build", conversation_id |-> conversation_id,
                          messages |-> messages, ret |-> FALSE,
                          before |-> Before(conversation_id),
                          pending |-> half.pending,
                          whole |-> sync_conversation(St, conversation_id, messages,
                                                      metadata, env)]
            /\ UNCHANGED <<max_recent_messages, now, faiss_available, faults, returned,
                           queue, chat, sel>>

\* line 265, then _save_memory and the return of sync_conversation
SyncFinish ==
    \E env \in Envs :
        /\ lastOp.op = "build"
        /\ SetSt(save_memory(build_map_assigned(St, lastOp.conversation_id,
                                                lastOp.pending), env))
        /\ lastOp' = [op |-> "sync", conversation_id |-> lastOp.conversation_id,
                      messages |-> lastOp.messages, ret |-> TRUE,
                      before |-> lastOp.before, whole |-> lastOp.whole]
        /\ UNCHANGED <<max_recent_messages, now, faiss_available, faults, returned,
                       queue, chat, sel>>

\* a waiting search is started: retrieve_relevant_messages on one conversation;
\* the record keeps the index and the message map it reads at lines 480-481
Search(r, query) ==
    \E env \in Envs :
        LET got == retrieve_relevant_messages(St, r.conversation_id, query, 0, FALSE, env)
        IN  /\ r \in queue
            /\ HandlerMayStart
            /\ SetSt(got.st)
            /\ queue' = queue \ {r}
            /\ lastOp' = [op |-> "search", conversation_id |-> r.conversation_id,
                          messages |-> got.messages, ret |-> TRUE,
                          before |-> Before(r.conversation_id),
                          rows |-> IndexSeen(r.conversation_id),
                          message_map |-> MapSeen(r.conversation_id),
                          half_built |-> r.half_built]
            /\ UNCHANGED <<max_recent_messages, now, faiss_available, faults, returned,
                           chat, sel>>

\* the running handler returns
ReturnOfHandler == lastOp.op # "build" /\ Return

NextBuild ==
    \/ \E l \in BuildLists, m \in MetaInputs : SyncBegin(ConvOrder[1], l, m)
    \/ SyncFinish
    \/ Arrive(ConvOrder[1])
    \/ \E r \in queue : Search(r, Sad)
    \/ ReturnOfHandler

SpecBuild == Init /\ [][NextBuild]_vars

\* C19: a search that was requested while the index of its conversation was
\* being rebuilt reads an index and a message map of one and the same build,
\* the old one or the new one.
C19_ReaderSeesOneBuild ==
    lastOp.op = "search" => SameBuild(lastOp.rows, lastOp.message_map)

\* a search requested between the assignment of a new index and that of its
\* message map, run on a conversation that has an index
C19_Witness ==
    /\ lastOp.op = "search"
    /\ lastOp.half_built
    /\ lastOp.rows.present
    /\ lastOp.messages # <<>>

\* C20: when append returns (no I/O failure), the index of the conversation
\* has been rebuilt from the updated message list (one row and one map entry
\* per eligible message, in order) and the persisted conversation log equals
\* the one in memory.
C20_AppendRebuildsThenPersists ==
    lastOp.op = "append" =>
        LET c == lastOp.conversation_id
            eligible == SelectSeq(memory[c].messages, Eligible)
        IN  /\ disk.memory = memory
            /\ Len(MapOf(c)) = Len(eligible)
            /\ Len(RowsOf(c)) = Len(eligible)
            /\ \A i \in DOMAIN eligible :
                    /\ Untagged(MapOf(c)[i]) = Untagged(eligible[i])
                    /\ RowsOf(c)[i] = Embed(eligible[i].content)

-----------------------------------------------------------------------------
(* The chat handler on a conversation of alternating turns, user first,     *)
(* every turn with a text of its own, all turns with ids or all without.    *)

WinText(k) == <<"m", "s", "g", ToString(k)>>

\* turn k (from 0) of the conversation
WinMsg(k, with_id) ==
    Msg(IF k % 2 = 0 THEN "user" ELSE "assistant", WinText(k),
        IF with_id THEN "w" \o ToString(k) ELSE NoId, StartTime, NoCid)

\* the first n turns
WinLog(n, with_id) == [k \in 1..n |-> WinMsg(k - 1, with_id)]

WinLogs == {WinLog(n, with_id) : n \in 0..MaxLog, with_id \in BOOLEAN}

NextWin ==
    \/ \E l \in WinLogs, m \in MetaInputs : LoadConversation(ConvOrder[1], l, m)
    \/ \E h \in WinLogs : Chat(ConvOrder[1], Sad, h)
    \/ Return

SpecWin == InitCtx /\ [][NextWin]_vars

\* what identifies a message to the front end: its role, text and id
Core(msg) == [role |-> msg.role, content |-> msg.content, id |-> msg.id]
CoreAll(messages) == [i \in DOMAIN messages |-> Core(messages[i])]

\* the stored non-system messages of the conversation of the chat request
ChatLog ==
    IF chat.conversation_id \in DOMAIN memory
    THEN NonSystem(memory[chat.conversation_id].messages)
    ELSE <<>>

\* the message build_context appends for the text of the request
NewUser == Msg("user", chat.message, NoId, NoTime, NoCid)

\* C21: with window_size 4, a history [user A, assistant B, user C,
\* assistant D, user E] that is also what the store holds, and no stored reply
\* after user E, the non-system part of the context is exactly
\* [user C, assistant D, user(new message)].
C21_FiveTurnsWindowFour ==
    (/\ chat # NoChat
     /\ max_recent_messages = 4
     /\ \E with_id \in BOOLEAN : CoreAll(chat.given) = CoreAll(WinLog(5, with_id))
     /\ CoreAll(ChatLog) = CoreAll(chat.given))
        => NonSystem(chat.context) = <<chat.given[3], chat.given[4], NewUser>>

\* the scenario, with ids on the messages
C21_Witness ==
    /\ chat # NoChat
    /\ max_recent_messages = 4
    /\ CoreAll(chat.given) = CoreAll(WinLog(5, TRUE))
    /\ CoreAll(ChatLog) = CoreAll(chat.given)
    /\ Len(chat.context) = 4

\* C22: for a history without any user message, whatever its length, the
\* selector returns the empty sequence and the context is the system
\* message(s) followed by the new user message alone.
C22_NoUserGivesEmptyWindow ==
    (/\ chat # NoChat
     /\ NonSystem(chat.given) # <<>>
     /\ \A i \in DOMAIN chat.given : chat.given[i].role # "user")
        => /\ chat.selected = <<>>
           /\ NonSystem(chat.context) = <<NewUser>>

\* the texts a retrieval specification stores or asks for
KnownTexts == {Sad, Glad, Hi}

\* the cache keys of the texts of a set
HashesOf(texts) == {get_content_hash(t) : t \in texts}

\* the conversations whose index has a row for the text
IndexedIn(content) ==
    {c \in DOMAIN faiss_indices :
        \E i \in DOMAIN MapOf(c) : MapOf(c)[i].content = content}

\* C23: the cache holds one entry per distinct embedded content, the vector of
\* that content: a content that appears in two conversations has one entry,
\* and the rows of both conversations' indices for it hold that vector.
C23_OneEntryPerContent ==
    /\ \A k \in DOMAIN vector_cache :
            \E t \in KnownTexts :
                /\ k = get_content_hash(t)
                /\ vector_cache[k] = Embed(t)
                /\ \A u \in KnownTexts : k = get_content_hash(u) => u = t
    /\ \A c \in DOMAIN faiss_indices :
            \A i \in DOMAIN RowsOf(c) :
                /\ i \in DOMAIN MapOf(c)
                /\ get_content_hash(MapOf(c)[i].content) \in DOMAIN vector_cache
                /\ RowsOf(c)[i] = vector_cache[get_content_hash(MapOf(c)[i].content)]

\* one content in the indices of two conversations, another content in one
\* of them, and two cache entries
C23_Witness ==
    /\ Cardinality(IndexedIn(Sad)) = 2
    /\ IndexedIn(Glad) # {}
    /\ Cardinality(DOMAIN vector_cache) = 2

\* C24: a non-empty result of the selector is a trailing run of its input: a
\* contiguous slice, in order, that ends with the last message of the input.
C24_TrailingRun ==
    (sel.done /\ sel.result # <<>>) =>
        sel.result = PyTail(sel.messages, Len(sel.result))

PlacesInLog(msg) == {i \in DOMAIN ChatLog : Core(ChatLog[i]) = Core(msg)}

\* the stored message has a reply: the next stored message is an assistant's
HasReply(i) == i + 1 \in DOMAIN ChatLog /\ ChatLog[i + 1].role = "assistant"

\* C26: when the selected window ends with a user message, then if the store's
\* log of the conversation has an assistant message right after that user
\* message, exactly that message is appended to the window, and otherwise the
\* trailing user message is dropped from the window.
C26_ReplyAppendedOrUserDropped ==
    (/\ chat # NoChat
     /\ chat.selected # <<>>
     /\ chat.selected[1].role = "user"
     /\ chat.selected[Len(chat.selected)].role = "user")
        => LET last == chat.selected[Len(chat.selected)]
               replied == {i \in PlacesInLog(last) : HasReply(i)}
           IN  IF replied # {}
               THEN \E i \in replied : chat.window = Append(chat.selected, ChatLog[i + 1])
               ELSE chat.window = PyDropTail(chat.selected, 1)

\* the system messages build_context puts first: those of the history after
\* the call, or the one it makes when the history has none
SystemPart ==
    IF SelectSeq(chat.history_after, IsSystem) # <<>>
    THEN SelectSeq(chat.history_after, IsSystem)
    ELSE <<Msg("system", system_content(chat.retrieved), NoId, NoTime, NoCid)>>

\* C27: a non-empty result of build_context is the system message(s), then
\* the repaired window in its order, then one new user message with the text
\* of the request; the retrieved messages are not elements of it.
C27_SystemWindowNewUser ==
    chat.context # <<>> =>
        /\ chat.context = SystemPart \o chat.window \o <<NewUser>>
        /\ \A i \in DOMAIN SystemPart : SystemPart[i].role = "system"
        /\ Len(chat.context) = Len(SystemPart) + Len(chat.window) + 1

\* a context with a non-empty window, built when messages were retrieved
C27_Witness ==
    /\ chat.context # <<>>
    /\ chat.window # <<>>
    /\ chat.retrieved # <<>>

-----------------------------------------------------------------------------
(* Cross-conversation retrieval when the Embedder may be down while a       *)
(* conversation is synchronised, so that a stored conversation may have no  *)
(* index.                                                                   *)

InitCross ==
    /\ EmptyManager
    /\ max_recent_messages = MaxWindow
    /\ faults = {"embedder"}
    /\ sel = NoSel

CrossLists == SeqsUpTo(RankPool, MaxSync)

NextCross ==
    \/ \E l \in CrossLists, m \in MetaInputs : LoadConversation(ConvOrder[1], l, m)
    \/ \E l \in ForeignLists, m \in MetaInputs : LoadConversation(ConvOrder[2], l, m)
    \/ \E n \in 0..MaxExclude : Retrieve(ConvOrder[1], Sad, n, TRUE)
    \/ Return

SpecCross == InitCross /\ [][NextCross]_vars

\* the stored messages of the retrieval's conversation that are eligible, not
\* among the last exclude_recent_count, and score at least the threshold
DueCandidates ==
    {i \in DOMAIN lastOp.stored :
        /\ i <= Len(lastOp.stored) - lastOp.exclude_recent_count
        /\ ~TooShort(lastOp.stored[i].content)
        /\ Passes(Scored(lastOp.stored[i],
                         Dot(Embed(lastOp.query), Embed(lastOp.stored[i].content)),
                         SAME_FACTOR))}

\* C28: with cross_conversation true, whenever a retrieval is done (the query
\* has a vector), every eligible, non-excluded message of the current
\* conversation whose score is at least the threshold is a candidate, also
\* when the current conversation has no index while another one has.
C28_CurrentConversationSearched ==
    (/\ lastOp.op = "retrieve"
     /\ lastOp.cross_conversation
     /\ lastOp.embedded)
        => \A i \in DueCandidates :
                \E j \in DOMAIN lastOp.candidates :
                    Untagged(lastOp.candidates[j].message) = lastOp.stored[i]

\* C29: a retrieval leaves every stored message unchanged: no message held by
\* the Conversation Store or by a message map gains or changes a field in the
\* step that performs the retrieval.
C29_RetrievalLeavesStoreUnchanged ==
    [][lastOp'.op = "retrieve" =>
            /\ memory' = memory
            /\ message_index_maps' = message_index_maps]_vars

\* C30: build_context does not modify the history it is given: after the call
\* every message of the caller's history, its first system message included,
\* is what it was before the call.
C30_HistoryNotModified ==
    chat # NoChat => chat.history_after = chat.given

-----------------------------------------------------------------------------
(* Chat requests while the Embedder may be down. *)

\* a text that no stored message has, so that its vector is not in the cache
DownMessages == {Glad}

NextDown ==
    \/ \E c \in SyncIds, h \in Histories(MaxSync), m \in MetaInputs :
            SyncConversation(c, h, m)
    \/ \E c \in ChatIds, message \in DownMessages, h \in ChatHistories :
            Chat(c, message, h)
    \/ Return

SpecDown == InitFaulty /\ [][NextDown]_vars

\* the system messages of a context built without hints: those of the history
\* given, the first with the persona text alone, or one new system message
PlainSystemPart ==
    LET given_system == SelectSeq(chat.given, IsSystem)
    IN  IF given_system = <<>>
        THEN <<Msg("system", BaseSystemContent, NoId, NoTime, NoCid)>>
        ELSE [i \in 1..Len(given_system) |->
                IF i = 1
                THEN [given_system[i] EXCEPT !.content = BaseSystemContent]
                ELSE given_system[i]]

\* C31: when the Embedder fails on the query, nothing is retrieved, the
\* context is the one the assembler makes of the system message(s) without
\* hints, the window and the new user message, and the handler goes on to
\* post it: no error ends the request.
C31_EmbedderDownStillContext ==
    (chat # NoChat /\ ~chat.embedded) =>
        /\ chat.retrieved = <<>>
        /\ chat.context = assemble(PlainSystemPart, chat.window, chat.message)
        /\ chat.posted = <<chat.context>>

\* a request with a long enough message whose embedding failed while a
\* conversation with an index is stored, and that got a non-empty context
C31_Witness ==
    /\ chat # NoChat
    /\ ~chat.embedded
    /\ ~TooShort(chat.message)
    /\ faiss_indices # <<>>
    /\ chat.window # <<>>
    /\ chat.context # <<>>

-----------------------------------------------------------------------------
(* The store operations while writes to the files may fail. *)

InitIO ==
    /\ EmptyManager
    /\ max_recent_messages = MaxWindow
    /\ faults = {"io"}
    /\ sel = NoSel

NextIO ==
    \/ \E c \in SyncIds, b \in SmallBatches : AddMessages(c, b)
    \/ \E c \in SyncIds, b \in SmallBatches, m \in MetaInputs : SyncConversation(c, b, m)
    \/ \E c \in SyncIds : DeleteConversation(c)
    \/ Return

SpecIO == InitIO /\ [][NextIO]_vars

\* the operation wrote, or tried to write, the conversation log
Wrote ==
    \/ lastOp.op \in {"append", "sync"}
    \/ lastOp.op = "delete" /\ lastOp.ret

\* C32: an append, sync or delete whose write fails still completes with the
\* in-memory state updated (the synchronised list stored, the appended
\* conversation present, the deleted conversation gone), and a mutation whose
\* write succeeds leaves the persisted log equal to the in-memory log,
\* whatever writes failed before it.
C32_FailedWriteRetriedByNext ==
    Wrote =>
        /\ lastOp.op = "sync" =>
                /\ lastOp.ret
                /\ lastOp.conversation_id \in DOMAIN memory
                /\ memory[lastOp.conversation_id].messages
                        = [i \in DOMAIN lastOp.messages |->
                                backend_msg(lastOp.messages[i], lastOp.conversation_id)]
        /\ lastOp.op = "append" =>
                /\ lastOp.conversation_id \in DOMAIN memory
                /\ Len(memory[lastOp.conversation_id].messages)
                        >= Max(lastOp.before.count, 0)
        /\ lastOp.op = "delete" => lastOp.conversation_id \notin DOMAIN memory
        /\ lastOp.io_ok => disk.memory = memory

\* a mutation whose write succeeded after an earlier write had failed
C32_Witness ==
    /\ Wrote
    /\ lastOp.io_ok
    /\ lastOp.stale
    /\ memory # EmptyDict

-----------------------------------------------------------------------------
(* The vector cache over many insertions, with a cache loaded at startup    *)
(* and writes that may fail.                                                *)

MaxLoaded == 150
MaxCache == 205

\* the k-th of a series of distinct texts, each long enough to be embedded
CacheText(k) == <<"t", "x", ToString(k)>>

\* the cache file written by an earlier run that had embedded n texts
LoadedCache(n) ==
    [h \in {get_content_hash(CacheText(k)) : k \in 1..n} |-> <<0, 10>>]

LoadedSizes == {0, MaxLoaded}

\* _load_cache (lines 94-105) on the file of an earlier run
InitCache ==
    /\ \E n \in LoadedSizes :
            /\ vector_cache = LoadedCache(n)
            /\ disk = [EmptyDisk EXCEPT !.cache = LoadedCache(n)]
    /\ memory = EmptyDict
    /\ faiss_indices = EmptyDict
    /\ message_index_maps = EmptyDict
    /\ map_alias = EmptyDict
    /\ now = StartTime
    /\ faiss_available = TRUE
    /\ lastOp = NoOp
    /\ chat = NoChat
    /\ returned = EmptyDict
    /\ queue = {}
    /\ max_recent_messages = MaxWindow
    /\ faults = {"io"}
    /\ sel = NoSel

\* the next text that is not in the cache, or the first text again
NextCache ==
    \/ /\ Cardinality(DOMAIN vector_cache) < MaxCache
       /\ \E k \in {1, Cardinality(DOMAIN vector_cache) + 1} : GetVector(CacheText(k))
    \/ Return

SpecCache == InitCache /\ [][NextCache]_vars

\* the cache entries that are not in the cache file
Unsaved == DOMAIN vector_cache \ DOMAIN disk.cache

\* C33: at every moment the number of cache entries computed since the last
\* successful write of the cache file is at most N = 100, whatever the size
\* of the cache loaded at startup.
C33_AtMostNUnsaved ==
    Cardinality(Unsaved) <= CACHE_SAVE_EVERY

-----------------------------------------------------------------------------
(* Startup: MemoryManager() followed by initialize_indices(), on the files   *)
(* the last run left, of which the vector store and the cache file may be   *)
(* missing or unreadable.                                                   *)

FileStates == {"ok", "missing", "corrupt"}

\* _load_vectors: the indices and message maps of the file, or none; a
\* loaded map holds copies, none of which is a dict of the store
load_vectors(d, vectors_file) ==
    IF ~faiss_available \/ vectors_file # "ok"
    THEN [faiss_indices |-> EmptyDict, message_index_maps |-> EmptyDict,
          map_alias |-> EmptyDict]
    ELSE [faiss_indices |-> d.vectors.faiss_indices,
          message_index_maps |-> d.vectors.message_index_maps,
          map_alias |-> [c \in DOMAIN d.vectors.message_index_maps |->
                            [i \in DOMAIN d.vectors.message_index_maps[c] |-> 0]]]

\* _load_cache
load_cache(d, cache_file) == IF cache_file = "ok" THEN d.cache ELSE EmptyDict

\* the files as the new run finds them
files_found(d, vectors_file, cache_file) ==
    [memory |-> d.memory,
     vectors |-> IF vectors_file = "ok" THEN d.vectors ELSE EmptyDisk.vectors,
     cache |-> IF cache_file = "ok" THEN d.cache ELSE EmptyDict]

\* lines 84-88: the manager after the three loads
loaded_manager(d, vectors_file, cache_file) ==
    [memory |-> d.memory, vector_cache |-> load_cache(d, cache_file),
     disk |-> files_found(d, vectors_file, cache_file)]
        @@ load_vectors(d, vectors_file)

\* for conv_id in self.memory.keys(): self._build_faiss_index(conv_id)
RECURSIVE initialize_indices(_, _, _)
initialize_indices(st, ids, env) ==
    IF ids = {} THEN st
    ELSE initialize_indices(build_faiss_index(st, FirstConv(ids), env),
                            ids \ {FirstConv(ids)}, env)

\* get_memory_manager() in a new process
startup(d, vectors_file, cache_file, env) ==
    initialize_indices(loaded_manager(d, vectors_file, cache_file),
                       DOMAIN d.memory, env)

Restart(vectors_file, cache_file) ==
    \E env \in Envs :
        /\ Idle
        /\ SetSt(startup(disk, vectors_file, cache_file, env))
        /\ lastOp' = [op |-> "startup", conversation_id |-> NoCid, messages |-> <<>>,
                      ret |-> TRUE, before |-> NoOp.before,
                      vectors_file |-> vectors_file, cache_file |-> cache_file]
        /\ UNCHANGED <<max_recent_messages, now, faiss_available, faults, returned,
                       queue, chat, sel>>

NextStart ==
    \/ \E c \in ConvIds, b \in SmallBatches : AddMessages(c, b)
    \/ \E c \in ConvIds, b \in SmallBatches, m \in MetaInputs : SyncConversation(c, b, m)
    \/ \E c \in ConvIds : DeleteConversation(c)
    \/ \E vectors_file \in FileStates, cache_file \in FileStates :
            Restart(vectors_file, cache_file)
    \/ Return

SpecStart == Init /\ [][NextStart]_vars

\* C34: after a startup that found the vector store or the cache file missing
\* or corrupt, every conversation of the log has an index built from the log
\* (its map is the list of the conversation's eligible messages, its rows are
\* their vectors), and no index exists for a conversation the log does not hold.
C34_StartupRebuildsFromLog ==
    (/\ lastOp.op = "startup"
     /\ (lastOp.vectors_file # "ok" \/ lastOp.cache_file # "ok"))
        => /\ \A c \in DOMAIN memory :
                /\ c \in DOMAIN faiss_indices
                /\ MapOf(c) = SelectSeq(memory[c].messages, Eligible)
                /\ Len(RowsOf(c)) = Len(MapOf(c))
                /\ \A i \in DOMAIN MapOf(c) : RowsOf(c)[i] = Embed(MapOf(c)[i].content)
           /\ DOMAIN faiss_indices \subseteq DOMAIN memory
           /\ DOMAIN message_index_maps \subseteq DOMAIN memory

-----------------------------------------------------------------------------
(* The chat handler up to its return, with the answer of the inference      *)
(* service.                                                                 *)

HTTP_OK == 200
HTTP_ERROR == 500

Statuses == {HTTP_OK, HTTP_ERROR}

\* main.py lines 72-155: the handler builds the context, posts it, and returns
\* the reply (status 200) or raises; it stores nothing (lines 136-137)
ChatWithReply(request_id, message, conversation_history, status) ==
    \E env \in Envs :
        LET done == handle_chat(St, request_id, message, conversation_history, env)
        IN  /\ Idle
            /\ SetSt(done.st)
            /\ chat' = done.chat @@ [status |-> status]
            /\ UNCHANGED <<max_recent_messages, now, faiss_available, faults, returned,
                           queue, lastOp, sel>>

NextReply ==
    \/ \E c \in SyncIds, h \in Histories(MaxSync), m \in MetaInputs :
            SyncConversation(c, h, m)
    \/ \E c \in SyncIds, message \in ChatMessages, h \in Histories(MaxSync),
          status \in Statuses :
            ChatWithReply(c, message, h, status)
    \/ Return

SpecReply == Init /\ [][NextReply]_vars

\* the chat request has returned the reply of the inference service
GotReply == chat # NoChat /\ chat.status = HTTP_OK

\* C35: when a chat request has got a reply, the Store holds, for the
\* request's conversation, the new user message followed by an assistant
\* message, and the conversation has an index.
C35_TurnsWrittenBack ==
    GotReply =>
        /\ chat.conversation_id \in DOMAIN memory
        /\ \E i \in 1..(Len(memory[chat.conversation_id].messages) - 1) :
                /\ memory[chat.conversation_id].messages[i].role = "user"
                /\ memory[chat.conversation_id].messages[i].content = chat.message
                /\ memory[chat.conversation_id].messages[i + 1].role = "assistant"
        /\ chat.conversation_id \in DOMAIN faiss_indices

-----------------------------------------------------------------------------
(* _calculate_time_decay on the timestamp texts a message can carry.        *)

MaxAhead == 3
MaxAge == 730

\* an ISO text without an offset ("2026-01-31T11:00:00"), one with an offset
\* ("2026-01-31T11:00:00+00:00"), or a text that is no ISO date
TimeForms == {"naive", "aware", "garbage"}

\* the timestamp texts: the instant is `hour`, in the hours of the manager's clock
TimeTexts == [form : TimeForms, hour : (StartTime - MaxAge)..(StartTime + MaxAhead)]

\* lines 398-411 on a text: fromisoformat raises ValueError on a text that is
\* no ISO date, and current_time (datetime.now(), naive) minus an offset-aware
\* datetime raises TypeError; both end in the except branch of lines 410-411
time_decay_of_text(text, current_time) ==
    IF text.form = "naive"
    THEN calculate_time_decay(text.hour, current_time)
    ELSE calculate_time_decay(BadTime, current_time)

TimeDecay(text) ==
    /\ Idle
    /\ lastOp' = [op |-> "time_decay", conversation_id |-> NoCid, messages |-> <<>>,
                  ret |-> TRUE, before |-> NoOp.before,
                  text |-> text, value |-> time_decay_of_text(text, now)]
    /\ UNCHANGED <<memory, faiss_indices, message_index_maps, map_alias, vector_cache,
                   disk, max_recent_messages, now, faiss_available, faults, returned,
                   queue, chat, sel>>

NextDecay ==
    \/ \E text \in TimeTexts : TimeDecay(text)
    \/ Return

SpecDecay == Init /\ [][NextDecay]_vars

\* the age in hours of a timestamp that can be parsed
AgeOf(text) == now - text.hour

\* C36: the time decay (in tenths) of a timestamp that can be parsed is 10 for
\* an age of at most 24 hours, 8 for at most 7 days, 5 for at most 30 days and
\* 3 beyond, bounds included; it is 5 for a timestamp that cannot be parsed.
C36_DecaySteps ==
    lastOp.op = "time_decay" =>
        IF lastOp.text.form = "garbage" THEN lastOp.value = 5
        ELSE /\ AgeOf(lastOp.text) <= 24 => lastOp.value = 10
             /\ (AgeOf(lastOp.text) > 24 /\ AgeOf(lastOp.text) <= 168) => lastOp.value = 8
             /\ (AgeOf(lastOp.text) > 168 /\ AgeOf(lastOp.text) <= 720) => lastOp.value = 5
             /\ AgeOf(lastOp.text) > 720 => lastOp.value = 3

\* C37: a non-empty result of build_context holds at most max_recent_messages
\* non-system messages: at most max_recent_messages - 1 messages of the
\* history and the new user message, also when the repair of a window that
\* ends on a user turn has appended the stored reply.
C37_AtMostWindowNonSystem ==
    chat.context # <<>> =>
        /\ Len(NonSystem(chat.context)) <= max_recent_messages
        /\ Len(chat.window) <= max_recent_messages - 1

\* C38: after any sequence of append, sync and delete operations on a manager
\* that started empty, the conversations that have an index are those that
\* have a message map, and each of them is in the Conversation Store.
C38_IndexedAreMappedAndStored ==
    /\ DOMAIN faiss_indices = DOMAIN message_index_maps
    /\ DOMAIN faiss_indices \subseteq DOMAIN memory

\* an indexed conversation was deleted while another conversation keeps its
\* index
C38_Witness ==
    /\ lastOp.op = "delete"
    /\ lastOp.ret
    /\ lastOp.before.indexed
    /\ DOMAIN faiss_indices # {}

====
